---- MODULE Spec2Model ----
(***************************************************************************)
(* prettycli VS Code extension: the protocol gateway (ApiServer), the      *)
(* panel lifecycle manager (PanelManager), the renderer registry           *)
(* (PluginManager) and the session store (SessionManager).                 *)
(*                                                                         *)
(* JavaScript runs every handler to completion on one thread, so each      *)
(* handler (a websocket message, a panel-disposal notification, a          *)
(* registry call) is one atomic action.  A handler that throws keeps the   *)
(* assignments it made before the throw.                                   *)
(***************************************************************************)
EXTENDS Integers, Sequences, FiniteSets, TLC

\* ------------------------------------------------------------------ bounds
\* Clock readings (Date.now(), milliseconds) range over 0..MaxClock.
MaxClock == 1
\* Webview panels created on the display surface during a run.
MaxHandles == 2
\* Artifact files written to the session directory during a run.
MaxFiles == 1
\* Math.random() suffixes range over 0..MaxRand.
MaxRand == 0

Times == 0..MaxClock
Rands == 0..MaxRand

\* ------------------------------------------------------------ value domains
\* JavaScript's undefined (an absent property of a parsed message).
Undefined == "<undefined>"

\* String(x) / template interpolation `${x}` of a string or undefined.
ToStr(x) == IF x = Undefined THEN "undefined" ELSE x

\* Panel ids are strings; a string is modelled as <<head, time, random>> so that
\* generated ids `panel-${Date.now()}-${random}` and caller-chosen ids compare.
NoPanelId == <<Undefined, 0, 0>>
EmptyPanelId == <<"", 0, 0>>
CallerPanelId == <<"p1", 0, 0>>

\* JavaScript truthiness of an optional string: undefined and "" are falsy.
Falsy(s) == s[1] = Undefined \/ s[1] = ""

\* The ids a client may put in a message: none, the empty string, a name of its
\* own, or any string of the generated form (an id it was given, or not).
GenIds == {<<"panel", t, r>> : t \in Times, r \in Rands}
ClientPanelIds == {NoPanelId, EmptyPanelId, CallerPanelId} \cup GenIds

\* Artifact type tags: "json" has a built-in renderer and an entry of the
\* extension table, "widget" has neither.
Types == {"json", "widget"}

NoArtifact ==
    [present |-> FALSE, type |-> Undefined, title |-> Undefined,
     data |-> Undefined, path |-> Undefined]
\* {type:"json", title:"A<B", data:{content:..}}
ArtJson ==
    [present |-> TRUE, type |-> "json", title |-> "A<B", data |-> "d1",
     path |-> Undefined]
\* {type:"widget", data:..}: no title
ArtWidget ==
    [present |-> TRUE, type |-> "widget", title |-> Undefined, data |-> "d2",
     path |-> Undefined]
\* {path:"/f"}: what the open action reads
ArtPath ==
    [present |-> TRUE, type |-> Undefined, title |-> Undefined, data |-> Undefined,
     path |-> "/f"]

RenderArtifacts == {NoArtifact, ArtJson, ArtWidget}
OpenArtifacts == {NoArtifact, ArtJson, ArtPath}

\* Exceptions: a thrown Error (with name and message) or a thrown non-Error value.
NoExc == [thrown |-> FALSE, isError |-> FALSE, message |-> "", str |-> ""]
TypeErrorNoData ==
    [thrown |-> TRUE, isError |-> TRUE, message |-> "Cannot destructure data",
     str |-> "TypeError: Cannot destructure data"]
ThrownString ==
    [thrown |-> TRUE, isError |-> FALSE, message |-> Undefined, str |-> "boom"]
WriteError ==
    [thrown |-> TRUE, isError |-> TRUE, message |-> "ENOSPC: no space left on device",
     str |-> "Error: ENOSPC: no space left on device"]
\* fs.writeFileSync when the directory of the file does not exist.
NoEntry ==
    [thrown |-> TRUE, isError |-> TRUE,
     message |-> "ENOENT: no such file or directory",
     str |-> "Error: ENOENT: no such file or directory"]

\* Paths.  A directory is <root>/tmp/prettycli/<sessionId>.  A file name is the
\* sequence of the pieces of text it is made of.  A file path is where
\* path.join put it, relative to a session directory `dir`: `up` levels above
\* it, then down the directories `sub`, then the file name.
NoRoot == ""
Roots == {NoRoot, "/ws"}
NoDir == [root |-> "", session |-> ""]
NoName == <<>>
NoPath == [dir |-> NoDir, up |-> 0, sub |-> <<>>, name |-> NoName]

NoMarkup == [by |-> "", type |-> "", data |-> ""]
NoHtml == [title |-> "", body |-> NoMarkup]

VARIABLES
    renderers,   \* PluginManager.renderers: type -> renderer name ("" = none)
    panels,      \* PanelManager.panels: panel id -> webview handle
    panelFiles,  \* PanelManager.panelFiles: panel id -> file path
    webviews,    \* the WebviewPanel objects created so far, by handle
    dismissed,   \* handles closed by the user, notification not yet delivered
    sessionId,   \* SessionManager.sessionId
    sessionPath, \* SessionManager.sessionPath (NoDir = null)
    root,        \* vscode.workspace.workspaceFolders[0] (NoRoot = none)
    dirs,        \* directories on disk
    disk,        \* files on disk: path -> content
    now,         \* the clock
    rendering,   \* the artifact handed to PluginManager.render
    markup,      \* the markup that render returned for it
    original,    \* DiffRenderer: the lines of the original text
    modified,    \* DiffRenderer: the lines of the modified text
    lcs,         \* what longestCommonSubsequence returned for them
    diffResult,  \* what computeDiff returned for them
    arrived,     \* connection: the number of frames that have arrived
    inbox,       \* connection: frames that await their 'message' event
    handling,    \* connection: the calls of handleMessage under way
    outbox       \* connection: the responses sent with ws.send, in order

\* The variables of a single call of render and of computeDiff.
callVars == <<rendering, markup, original, modified, lcs, diffResult>>

\* The variables of a websocket connection.
connVars == <<arrived, inbox, handling, outbox>>

vars ==
    <<renderers, panels, panelFiles, webviews, dismissed, sessionId, sessionPath,
      root, dirs, disk, now, callVars, connVars>>


\* The program state the handlers read and write, as one record.
World ==
    [renderers |-> renderers, panels |-> panels, panelFiles |-> panelFiles,
     webviews |-> webviews, sessionId |-> sessionId, sessionPath |-> sessionPath,
     root |-> root, dirs |-> dirs, disk |-> disk]

\* Map.delete(k)
MapDelete(f, k) == [x \in (DOMAIN f) \ {k} |-> f[x]]

\* Map.set(k, v)
MapSet(f, k, v) == [x \in (DOMAIN f) \cup {k} |-> IF x = k THEN v ELSE f[x]]

\* ------------------------------------------------------------- base.ts
\* escapeHtml: & < > " ' become entities (on the strings of the model).
escapeHtml(text) ==
    CASE text = "A<B" -> "A&lt;B"
      [] OTHER -> text

\* getBaseHtml(content, title = 'Artifact'): the default applies to undefined only.
getBaseHtml(content, title) ==
    [title |-> escapeHtml(IF title = Undefined THEN "Artifact" ELSE title),
     body |-> content]

\* ------------------------------------------------------- PluginManager
\* JSON.stringify(data, null, 2): undefined for undefined.
JsonStringify(d) ==
    CASE d = "d1" -> "{d1}"
      [] d = "d2" -> "{d2}"
      [] OTHER -> Undefined

\* A renderer's render(artifact).  The built-in JsonRenderer destructures
\* artifact.data and throws a TypeError when it is undefined; "custom" is a
\* plugin that renders any payload; "thrower" is a plugin whose render throws.
RendererRender(name, artifact) ==
    CASE name = "builtin" ->
            IF artifact.data = Undefined
            THEN [exc |-> TypeErrorNoData, markup |-> NoMarkup]
            ELSE [exc |-> NoExc,
                  markup |-> [by |-> "builtin", type |-> ToStr(artifact.type),
                              data |-> artifact.data]]
      [] name = "thrower" -> [exc |-> ThrownString, markup |-> NoMarkup]
      [] OTHER ->
            [exc |-> NoExc,
             markup |-> [by |-> name, type |-> ToStr(artifact.type),
                         data |-> ToStr(artifact.data)]]

\* register(renderer) as it would be if the first registration won.
registerIfAbsent(rs, renderer) ==
    IF rs[renderer.type] # "" THEN rs ELSE [rs EXCEPT ![renderer.type] = renderer.name]

\* PluginManager.register(renderer)
register(rs, renderer) == [rs EXCEPT ![renderer.type] = renderer.name]

\* PluginManager.unregister(type)
unregister(rs, type) == [rs EXCEPT ![type] = ""]

\* PluginManager.getRenderer(type): "" when absent
getRenderer(rs, type) == IF type \in DOMAIN rs THEN rs[type] ELSE ""

\* PluginManager.renderFallback(artifact)
renderFallback(artifact) ==
    [by |-> "fallback: Unknown artifact type", type |-> ToStr(artifact.type),
     data |-> ToStr(JsonStringify(artifact.data))]

\* PluginManager.render(artifact): a renderer's exception is not caught here.
PluginRender(rs, artifact) ==
    LET renderer == getRenderer(rs, artifact.type)
    IN  IF renderer = ""
        THEN [exc |-> NoExc, markup |-> renderFallback(artifact)]
        ELSE RendererRender(renderer, artifact)

\* ------------------------------------------------------ SessionManager
\* getSessionPath() as it would be without the test for a workspace folder.
getSessionPathAnyRoot(w) ==
    IF w.sessionPath # NoDir THEN [w |-> w, ret |-> w.sessionPath]
    ELSE [w |-> [w EXCEPT !.dirs = @ \cup {[root |-> w.root, session |-> w.sessionId]},
                          !.sessionPath = [root |-> w.root, session |-> w.sessionId]],
          ret |-> [root |-> w.root, session |-> w.sessionId]]

\* getSessionPath(): the cached path, or null without a workspace folder, or
\* the directory <root>/tmp/prettycli/<sessionId>, created and cached.
getSessionPath(w) ==
    IF w.sessionPath # NoDir THEN [w |-> w, ret |-> w.sessionPath]
    ELSE IF w.root = NoRoot THEN [w |-> w, ret |-> NoDir]
    ELSE LET sessionDir == [root |-> w.root, session |-> w.sessionId]
         IN  [w |-> [w EXCEPT !.dirs = @ \cup {sessionDir},
                              !.sessionPath = sessionDir],
              ret |-> sessionDir]

\* `${extensions[type]}` for a tag that is no key of the table but names a
\* member the object literal inherits from Object.prototype.
InheritedMember(type) ==
    CASE type = "constructor" -> "function Object() { [native code] }"
      [] type = "toString" -> "function toString() { [native code] }"
      [] type = "__proto__" -> "[object Object]"

\* getExtension(type): `extensions[type] || 'txt'` on an object literal: the
\* entry of the table, an inherited member for the tags that name one, 'txt'
\* for every other tag.
getExtension(type) ==
    CASE type \in {"chart", "table", "diff", "web"} -> "html"
      [] type \in {"constructor", "toString", "__proto__"} -> InheritedMember(type)
      [] type = "file" -> "txt"
      [] type = "markdown" -> "md"
      [] type = "json" -> "json"
      [] type = "image" -> "png"
      [] type = "csv" -> "csv"
      [] type = "xlsx" -> "xlsx"
      [] OTHER -> "txt"

\* The text of a type tag or of an extension, cut at the path separators it
\* holds (the separators are kept as pieces "/").
Tokens(s) ==
    CASE s = "a/b" -> <<"a", "/", "b">>
      [] s = "x/../../y" -> <<"x", "/", "..", "/", "..", "/", "y">>
      [] OTHER -> <<ToStr(s)>>

\* generateFilename(type, extension) at clock reading t with random suffix r:
\* `${time}_${type}_${random}.${extension}`
generateFilename(type, extension, t, r) ==
    <<ToString(t), "_">> \o Tokens(type) \o <<"_", ToString(r), ".">>
        \o Tokens(extension)

\* The segments of a relative path: the runs of pieces between separators.
\* A piece put in front of the segments of the rest: a separator opens a new
\* segment, any other piece joins the first one.
Cut(piece, segments) ==
    IF piece = "/" THEN << <<>> >> \o segments
    ELSE << <<piece>> \o Head(segments) >> \o Tail(segments)

RECURSIVE Segments(_)
Segments(name) ==
    IF name = <<>> THEN << <<>> >>
    ELSE Cut(Head(name), Segments(Tail(name)))

\* path.normalize of the segments of a relative path: empty and "." segments
\* are dropped, a ".." segment removes the segment before it or, when there is
\* none, climbs one level.
RECURSIVE Normalize(_, _, _)
Normalize(segments, up, kept) ==
    IF segments = <<>> THEN [up |-> up, kept |-> kept]
    ELSE IF Head(segments) = <<>> \/ Head(segments) = <<".">>
    THEN Normalize(Tail(segments), up, kept)
    ELSE IF Head(segments) = <<"..">>
    THEN IF kept = <<>> THEN Normalize(Tail(segments), up + 1, kept)
         ELSE Normalize(Tail(segments), up, SubSeq(kept, 1, Len(kept) - 1))
    ELSE Normalize(Tail(segments), up, Append(kept, Head(segments)))

\* The path made of a directory and what is left of a relative path.
Resolved(dir, n) ==
    [dir |-> dir, up |-> n.up,
     sub |-> IF n.kept = <<>> THEN <<>> ELSE SubSeq(n.kept, 1, Len(n.kept) - 1),
     name |-> IF n.kept = <<>> THEN NoName ELSE n.kept[Len(n.kept)]]

\* path.join(sessionPath, filename)
pathJoin(dir, filename) == Resolved(dir, Normalize(Segments(filename), 0, <<>>))

\* fs.writeFileSync(filePath, content): io = "fail" is the write failing (disk
\* full); the write also fails when the directory of the file does not exist
\* or when the path is a directory.  An existing file is overwritten.
writeFileSync(w, filePath, content, io) ==
    IF io = "fail" THEN [w |-> w, exc |-> WriteError, ret |-> NoPath]
    ELSE IF \/ filePath.sub # <<>>
            \/ filePath.name = NoName
            \/ (filePath.up = 0 /\ filePath.dir \notin w.dirs)
    THEN [w |-> w, exc |-> NoEntry, ret |-> NoPath]
    ELSE [w |-> [w EXCEPT !.disk = MapSet(@, filePath, content)],
          exc |-> NoExc, ret |-> filePath]

\* The part saveArtifact and saveBinaryArtifact share, given what
\* getSessionPath did: null without a session path, else the file is written
\* at path.join(sessionPath, filename) and that path is returned.
SaveAs(sp, filename, content, io) ==
    IF sp.ret = NoDir THEN [w |-> sp.w, exc |-> NoExc, ret |-> NoPath]
    ELSE writeFileSync(sp.w, pathJoin(sp.ret, filename), content, io)

\* saveArtifact(artifact, content)
saveArtifact(w, artifact, content, t, r, io) ==
    SaveAs(getSessionPath(w),
           generateFilename(artifact.type, getExtension(artifact.type), t, r),
           content, io)

\* saveBinaryArtifact(artifact, data, extension)
saveBinaryArtifact(w, artifact, data, extension, t, r, io) ==
    SaveAs(getSessionPath(w), generateFilename(artifact.type, extension, t, r),
           data, io)

\* -------------------------------------------------------- PanelManager
\* onDidDispose as it would be without `this.panelFiles.delete(id)`.
onDidDisposeKeepsFile(w, id) == [w EXCEPT !.panels = MapDelete(@, id)]

\* The onDidDispose listener that show() registers: it captures the id.
onDidDispose(w, id) ==
    [w EXCEPT !.panels = MapDelete(@, id), !.panelFiles = MapDelete(@, id)]

\* A dispose() that marks the panel disposed and tells no listener.
PanelDisposeSilent(w, h) ==
    [w EXCEPT !.webviews[h].disposed = TRUE, !.webviews[h].title = "",
              !.webviews[h].html = NoHtml]

\* vscode's WebviewPanel.dispose(): on the first call the panel is marked
\* disposed and its onDidDispose listeners run, synchronously; later calls do
\* nothing.  The same call runs when the display surface reports that the user
\* closed the panel.  A disposed panel shows nothing: its title and content
\* can no longer be read.
PanelDispose(w, h) ==
    IF w.webviews[h].disposed THEN w
    ELSE onDidDispose([w EXCEPT !.webviews[h].disposed = TRUE,
                                !.webviews[h].title = "",
                                !.webviews[h].html = NoHtml],
                      w.webviews[h].listener)

\* generateId(): `panel-${Date.now()}-${Math.random()...}`
generateId(t, r) == <<"panel", t, r>>

\* `${artifact.type} artifact`
DefaultTitle(type) ==
    CASE type = "json" -> "json artifact"
      [] type = "widget" -> "widget artifact"
      [] OTHER -> "undefined artifact"

\* renderArtifact(artifact)
renderArtifact(w, artifact) ==
    LET content == PluginRender(w.renderers, artifact)
    IN  [exc |-> content.exc,
         html |-> IF content.exc.thrown THEN NoHtml
                  ELSE getBaseHtml(content.markup, artifact.title)]

\* `if (filePath) this.panelFiles.set(id, filePath)`, given what saveArtifact
\* did; an exception of saveArtifact propagates.
RecordFile(saved, id) ==
    IF saved.exc.thrown
    THEN [w |-> saved.w, exc |-> saved.exc, filePath |-> NoPath]
    ELSE IF saved.ret # NoPath
    THEN [w |-> [saved.w EXCEPT !.panelFiles = MapSet(@, id, saved.ret)],
          exc |-> NoExc, filePath |-> saved.ret]
    ELSE [w |-> saved.w, exc |-> NoExc, filePath |-> NoPath]

\* panel.title = title; panel.webview.html = html; then persist and record the
\* file path.  `rendered` is what renderArtifact did: when it threw, nothing of
\* this runs.
Display(w, id, h, artifact, title, t, rf, io, rendered) ==
    IF rendered.exc.thrown
    THEN [w |-> w, exc |-> rendered.exc, filePath |-> NoPath]
    ELSE RecordFile(saveArtifact([w EXCEPT !.webviews[h].title = title,
                                           !.webviews[h].html = rendered.html],
                                 artifact, rendered.html, t, rf, io),
                    id)

\* The second half of show() and of update(): render, set title and content,
\* persist, record the file path.  `title` is what the caller assigns to
\* panel.title.
RenderInto(w, id, h, artifact, title, t, rf, io) ==
    Display(w, id, h, artifact, title, t, rf, io, renderArtifact(w, artifact))

\* createWebviewPanel(.., title, ..), panel.onDidDispose(listener) and
\* this.panels.set(id, panel): the new panel gets the next handle.
createWebviewPanel(w, id, title) ==
    [w EXCEPT
       !.webviews = Append(@, [title |-> title, html |-> NoHtml,
                               disposed |-> FALSE, listener |-> id]),
       !.panels = MapSet(@, id, Len(w.webviews) + 1)]

\* artifact.title || fallback
TitleOr(artifact, fallback) ==
    IF artifact.title = Undefined \/ artifact.title = "" THEN fallback
    ELSE artifact.title

\* show() as it would be without the `if (!panel)` test: a panel is created
\* and registered on every call.
showAlwaysCreates(w, artifact, panelId, t, ri, rf, io) ==
    LET id == IF Falsy(panelId) THEN generateId(t, ri) ELSE panelId
        title == TitleOr(artifact, DefaultTitle(artifact.type))
    IN  [panelId |-> id]
        @@ RenderInto(createWebviewPanel(w, id, title), id, Len(w.webviews) + 1,
                      artifact, title, t, rf, io)

\* show(artifact, panelId?) at clock reading t; ri and rf are the random
\* suffixes of the panel id and of the file name.  The result is
\* {panelId, filePath}, with the state and the exception thrown, if any.
show(w, artifact, panelId, t, ri, rf, io) ==
    LET id == IF Falsy(panelId) THEN generateId(t, ri) ELSE panelId
        title == TitleOr(artifact, DefaultTitle(artifact.type))
    IN  [panelId |-> id]
        @@ IF id \in DOMAIN w.panels
           THEN RenderInto(w, id, w.panels[id], artifact, title, t, rf, io)
           ELSE RenderInto(createWebviewPanel(w, id, title), id,
                           Len(w.webviews) + 1, artifact, title, t, rf, io)

\* update() as it would be if a missing panel were created instead of reported.
updateOrCreate(w, panelId, artifact, t, rf, io) ==
    [success |-> TRUE] @@ show(w, artifact, panelId, t, 0, rf, io)

\* update(panelId, artifact): the result is {success, filePath}, with the
\* state and the exception thrown, if any.
update(w, panelId, artifact, t, rf, io) ==
    IF panelId \notin DOMAIN w.panels
    THEN [w |-> w, exc |-> NoExc, success |-> FALSE, filePath |-> NoPath]
    ELSE [success |-> TRUE]
         @@ RenderInto(w, panelId, w.panels[panelId], artifact,
                       TitleOr(artifact, w.webviews[w.panels[panelId]].title),
                       t, rf, io)

\* getFilePath(panelId): NoPath is null
getFilePath(w, panelId) ==
    IF panelId \in DOMAIN w.panelFiles THEN w.panelFiles[panelId] ELSE NoPath

\* close() as it would be without `panel.dispose()`: the entry is dropped,
\* the visual panel stays.
closeWithoutDispose(w, panelId) ==
    IF panelId \notin DOMAIN w.panels THEN [w |-> w, ret |-> FALSE]
    ELSE [w |-> [w EXCEPT !.panels = MapDelete(@, panelId)], ret |-> TRUE]

\* close() as it would be without the `if (!panel) return false` test.
closeAlwaysTrue(w, panelId) ==
    LET w1 == IF panelId \in DOMAIN w.panels
              THEN PanelDispose(w, w.panels[panelId]) ELSE w
    IN  [w |-> [w1 EXCEPT !.panels = MapDelete(@, panelId)], ret |-> TRUE]

\* close(panelId)
close(w, panelId) ==
    IF panelId \notin DOMAIN w.panels THEN [w |-> w, ret |-> FALSE]
    ELSE LET w1 == PanelDispose(w, w.panels[panelId])
         IN  [w |-> [w1 EXCEPT !.panels = MapDelete(@, panelId)], ret |-> TRUE]

\* A list() that reports the panels with a recorded file.
listRecorded(w) == DOMAIN w.panelFiles

\* list()
list(w) == DOMAIN w.panels

\* this.panels.forEach(panel => panel.dispose()) over the panels `ids`
RECURSIVE DisposeEach(_, _)
DisposeEach(w, ids) ==
    IF ids = {} THEN w
    ELSE LET id == CHOOSE x \in ids : TRUE
         IN  DisposeEach(IF id \in DOMAIN w.panels THEN PanelDispose(w, w.panels[id])
                         ELSE w,
                         ids \ {id})

\* PanelManager.dispose(): every panel is disposed, then panels.clear()
dispose(w) == [DisposeEach(w, DOMAIN w.panels) EXCEPT !.panels = <<>>]

\* ----------------------------------------------------------- ApiServer
NoError == [text |-> Undefined, arg |-> ""]
NoData ==
    [kind |-> Undefined, panelId |-> NoPanelId, filePath |-> NoPath, panels |-> {}]

\* An ApiResponse; JSON.stringify drops the properties that are undefined.
Response(id, success, error, data) ==
    [id |-> id, success |-> success, error |-> error, data |-> data]

\* A failure response whose error does not say what was wrong.
FailureUnnamed(id, text) == Response(id, FALSE, [text |-> "Bad request", arg |-> ""], NoData)

Failure(id, text) == Response(id, FALSE, [text |-> text, arg |-> ""], NoData)

\* What a websocket frame holds: text that is not JSON ("invalid"), the JSON
\* value null, a JSON number, string or array (every property read of which
\* gives undefined), or a JSON object with these properties.
Payload(kind, id, action, artifact, panelId) ==
    [kind |-> kind, id |-> id, action |-> action, artifact |-> artifact,
     panelId |-> panelId]

MsgIds == {"1", "2"}

Messages ==
    {Payload("object", i, a, art, p) :
        i \in MsgIds, a \in {"render", "update"}, art \in RenderArtifacts,
        p \in ClientPanelIds}
    \cup {Payload("object", i, "close", NoArtifact, p) :
            i \in MsgIds, p \in ClientPanelIds}
    \cup {Payload("object", i, a, NoArtifact, NoPanelId) :
            i \in MsgIds, a \in {"list", "ping", "foo"}}
    \cup {Payload("object", i, "open", art, NoPanelId) :
            i \in MsgIds, art \in OpenArtifacts}

Malformed ==
    {Payload(k, Undefined, Undefined, NoArtifact, NoPanelId) :
        k \in {"invalid", "null", "number", "string", "array"}}

\* The response of the render case, given what show did.
RenderResponse(id, result) ==
    [w |-> result.w, exc |-> result.exc,
     response |->
         Response(id, TRUE, NoError,
                  [kind |-> "render", panelId |-> result.panelId,
                   filePath |-> result.filePath, panels |-> {}])]

\* The response of the update case, given what update did.
UpdateResponse(id, updateResult) ==
    [w |-> updateResult.w, exc |-> updateResult.exc,
     response |->
         IF updateResult.success
         THEN Response(id, TRUE, NoError,
                       [kind |-> "update", panelId |-> NoPanelId,
                        filePath |-> updateResult.filePath, panels |-> {}])
         ELSE Failure(id, "Panel not found")]

\* The response of the close case, given what close did.
CloseResponse(id, closed) ==
    [w |-> closed.w, exc |-> NoExc,
     response |->
         IF closed.ret THEN Response(id, TRUE, NoError, NoData)
         ELSE Failure(id, "Panel not found")]

\* processMessage(message)
processMessage(w, message, t, ri, rf, io) ==
    CASE message.action = "render" ->
            IF ~message.artifact.present
            THEN [w |-> w, exc |-> NoExc,
                  response |-> Failure(message.id, "Missing artifact")]
            ELSE RenderResponse(message.id,
                                show(w, message.artifact, message.panelId,
                                     t, ri, rf, io))
      [] message.action = "update" ->
            IF Falsy(message.panelId) \/ ~message.artifact.present
            THEN [w |-> w, exc |-> NoExc,
                  response |-> Failure(message.id, "Missing panelId or artifact")]
            ELSE UpdateResponse(message.id,
                                update(w, message.panelId, message.artifact,
                                       t, rf, io))
      [] message.action = "close" ->
            IF Falsy(message.panelId)
            THEN [w |-> w, exc |-> NoExc,
                  response |-> Failure(message.id, "Missing panelId")]
            ELSE CloseResponse(message.id, close(w, message.panelId))
      [] message.action = "list" ->
            [w |-> w, exc |-> NoExc,
             response |->
                 Response(message.id, TRUE, NoError,
                          [kind |-> "list", panelId |-> NoPanelId,
                           filePath |-> NoPath, panels |-> list(w)])]
      [] message.action = "open" ->
            IF message.artifact.path = Undefined \/ message.artifact.path = ""
            THEN [w |-> w, exc |-> NoExc,
                  response |-> Failure(message.id, "Missing path")]
            ELSE [w |-> w, exc |-> NoExc,
                  response |-> Response(message.id, TRUE, NoError, NoData)]
      [] message.action = "ping" ->
            [w |-> w, exc |-> NoExc,
             response |-> Response(message.id, TRUE, NoError, NoData)]
      [] OTHER ->
            [w |-> w, exc |-> NoExc,
             response |->
                 Response(message.id, FALSE,
                          [text |-> "Unknown action: ", arg |-> ToStr(message.action)],
                          NoData)]

\* The catch clause as it would be with String(error) for every exception.
ErrorTextString(error) == error.str

\* The catch clause of handleMessage:
\* error instanceof Error ? error.message : String(error)
ErrorText(error) == IF error.isError THEN error.message ELSE error.str

\* What handleMessage would do without its second try block: an exception of
\* processMessage leaves the listener and nothing is sent.
Uncaught(r) ==
    IF r.exc.thrown
    THEN [w |-> r.w, out |-> <<>>, threw |-> TRUE, exc |-> r.exc]
    ELSE [w |-> r.w, out |-> <<r.response>>, threw |-> FALSE, exc |-> NoExc]

handleMessageNoCatch(w, data, t, ri, rf, io) ==
    IF data.kind = "invalid"
    THEN [w |-> w, out |-> <<Failure("unknown", "Invalid JSON")>>,
          threw |-> FALSE, exc |-> NoExc]
    ELSE IF data.kind = "null"
    THEN [w |-> w, out |-> <<>>, threw |-> TRUE, exc |-> NoExc]
    ELSE Uncaught(processMessage(w, data, t, ri, rf, io))

\* The second try block of handleMessage, given what processMessage did: its
\* response is sent, or the catch clause sends a failure with the message's id.
TryRespond(id, r) ==
    IF r.exc.thrown
    THEN [w |-> r.w,
          out |-> <<Response(id, FALSE, [text |-> ErrorText(r.exc), arg |-> ""],
                             NoData)>>,
          threw |-> FALSE, exc |-> r.exc]
    ELSE [w |-> r.w, out |-> <<r.response>>, threw |-> FALSE, exc |-> NoExc]

\* handleMessage(ws, data): `out` is what ws.send was called with, in order;
\* `threw` says the handler itself threw (the exception left the 'message'
\* listener); `exc` is the exception its catch clause caught.
handleMessage(w, data, t, ri, rf, io) ==
    IF data.kind = "invalid"
    THEN [w |-> w, out |-> <<Failure("unknown", "Invalid JSON")>>,
          threw |-> FALSE, exc |-> NoExc]
    ELSE IF data.kind = "null"
    THEN \* message.action on null: a TypeError outside any try block
         [w |-> w, out |-> <<>>, threw |-> TRUE, exc |-> NoExc]
    ELSE TryRespond(data.id, processMessage(w, data, t, ri, rf, io))

\* ------------------------------------------------------------- actions
\* The renderer objects a plugin may register through the extension's
\* registerRenderer API, besides the built-in ones.
RendererObjects ==
    {[type |-> "json", name |-> "builtin"], [type |-> "widget", name |-> "thrower"]}

\* The random draws and the outcome of the file write are chosen only for the
\* messages whose handling reads them.
Renders(data) ==
    /\ data.kind = "object"
    /\ data.artifact.present
    /\ data.action \in {"render", "update"}

RandomIds(data) ==
    IF Renders(data) /\ data.action = "render" /\ Falsy(data.panelId)
    THEN Rands ELSE {0}

RandomNames(data) == IF Renders(data) THEN Rands ELSE {0}

WriteOutcomes(data) == IF Renders(data) THEN {"ok", "fail"} ELSE {"ok"}

\* render has not been called: there is no markup yet.
NotRendered == [called |-> FALSE, exc |-> NoExc, markup |-> <<>>]

\* computeDiff has not been called: there is no result yet.
NoDiff == [left |-> <<>>, right |-> <<>>, addedCount |-> -1, removedCount |-> -1]

\* No frame has arrived on the connection.
NoConnection ==
    /\ arrived = 0
    /\ inbox = <<>>
    /\ handling = <<>>
    /\ outbox = <<>>

\* No call of render or of computeDiff is under way.
NoCalls ==
    /\ rendering = NoArtifact
    /\ markup = NotRendered
    /\ original = <<>>
    /\ modified = <<>>
    /\ lcs = <<>>
    /\ diffResult = NoDiff
    /\ NoConnection

\* After activate(): the built-in renderers are registered, no panel is open,
\* the session id is fixed and no session directory exists yet.
Init ==
    /\ renderers = [t \in Types |-> IF t = "json" THEN "builtin" ELSE ""]
    /\ panels = <<>>
    /\ panelFiles = <<>>
    /\ webviews = <<>>
    /\ dismissed = {}
    /\ sessionId = "20240101_000000_ab12"
    /\ sessionPath = NoDir
    /\ root \in Roots
    /\ dirs = {}
    /\ disk = <<>>
    /\ now = 0
    /\ NoCalls

\* The manager and store variables take the values of the record w.
Commit(w) ==
    /\ renderers' = w.renderers
    /\ panels' = w.panels
    /\ panelFiles' = w.panelFiles
    /\ webviews' = w.webviews
    /\ sessionPath' = w.sessionPath
    /\ dirs' = w.dirs
    /\ disk' = w.disk

\* The frames that arrive.  Frames that differ only in their correlation id, or
\* only in which falsy panel id they carry, lead to the same state: one of
\* each is enough here.
Frames ==
    {m \in Messages : m.id = "1" /\ m.panelId # EmptyPanelId} \cup Malformed

\* The handler ran to completion within the bounds: its effects take place.
Handled(w) ==
    /\ Len(w.webviews) <= MaxHandles
    /\ Cardinality(DOMAIN w.disk) <= MaxFiles
    /\ Commit(w)

\* ws.on('message'): one frame is handled to completion.
Receive ==
    \E data \in Frames :
      \E ri \in RandomIds(data), rf \in RandomNames(data), io \in WriteOutcomes(data) :
        /\ Handled(handleMessage(World, data, now, ri, rf, io).w)
        /\ UNCHANGED <<callVars, connVars, dismissed, sessionId, root, now>>

\* The user closes a panel on the display surface; the notification to the
\* extension host is in flight.
UserDismiss ==
    \E h \in 1..Len(webviews) :
        /\ ~webviews[h].disposed
        /\ h \notin dismissed
        /\ dismissed' = dismissed \cup {h}
        /\ UNCHANGED <<callVars, connVars, renderers, panels, panelFiles, webviews, sessionId,
                       sessionPath, root, dirs, disk, now>>

\* The notification arrives: the extension host disposes the panel object,
\* which runs the listener show() registered.
PanelDisposed ==
    \E h \in dismissed :
        /\ Commit(PanelDispose(World, h))
        /\ dismissed' = dismissed \ {h}
        /\ UNCHANGED <<callVars, connVars, sessionId, root, now>>

\* registerRenderer(renderer) of the extension API
Register ==
    \E renderer \in RendererObjects :
        /\ renderers' = register(renderers, renderer)
        /\ UNCHANGED <<callVars, connVars, panels, panelFiles, webviews, dismissed, sessionId,
                       sessionPath, root, dirs, disk, now>>

\* pluginManager.unregister(type)
Unregister ==
    \E type \in {"widget"} :
        /\ renderers' = unregister(renderers, type)
        /\ UNCHANGED <<callVars, connVars, panels, panelFiles, webviews, dismissed, sessionId,
                       sessionPath, root, dirs, disk, now>>

\* The workspace folder is opened, closed or changed.
SetRoot ==
    \E r \in Roots :
        /\ root' = r
        /\ UNCHANGED <<callVars, connVars, renderers, panels, panelFiles, webviews, dismissed,
                       sessionId, sessionPath, dirs, disk, now>>

\* A millisecond passes.
Tick ==
    /\ now < MaxClock
    /\ now' = now + 1
    /\ UNCHANGED <<callVars, connVars, renderers, panels, panelFiles, webviews, dismissed, sessionId,
                   sessionPath, root, dirs, disk>>

Next ==
    \/ Receive
    \/ UserDismiss
    \/ PanelDisposed
    \/ Register
    \/ Unregister
    \/ SetRoot
    \/ Tick

Spec == Init /\ [][Next]_vars

\* ---------------------------------------------------------------- claims
\* Every draw of the random suffixes and of the outcome of the file write.
Draws ==
    {[ri |-> a, rf |-> b, io |-> c] : a \in Rands, b \in Rands, c \in {"ok", "fail"}}

\* What handling the frame `data` in the current state does.
Handle(data, d) == handleMessage(World, data, now, d.ri, d.rf, d.io)

\* The handles of the panels created so far, and those still on the display
\* surface (neither disposed by the extension nor closed by the user).
Handles == 1..Len(webviews)
Live(h) == ~webviews[h].disposed /\ h \notin dismissed

\* The title show() gives a panel, and the content a render of the artifact
\* puts into it.
ShownTitle(artifact) ==
    IF artifact.title = Undefined THEN DefaultTitle(artifact.type)
    ELSE artifact.title
ShownHtml(artifact) ==
    getBaseHtml(PluginRender(renderers, artifact).markup, artifact.title)

\* C1: for every well-formed message, whatever its action and whether or not
\* its dispatch fails or throws, the handler sends exactly one response, with
\* the id of the message, and does not throw.
C1_OneCorrelatedResponse ==
    \A data \in Messages : \A d \in Draws :
        LET r == Handle(data, d)
        IN  /\ ~r.threw
            /\ Len(r.out) = 1
            /\ r.out[1].id = data.id

\* A panel is open and some message throws while it is dispatched, which the
\* handler answers once, under the id of the message.
C1_Witness ==
    /\ DOMAIN panels # {}
    /\ \E data \in Messages : \E d \in Draws :
        LET r == Handle(data, d)
        IN  r.exc.thrown /\ Len(r.out) = 1 /\ r.out[1].id = data.id

\* C2: every malformed payload (text that is not JSON, or the JSON value null,
\* a number, a string or an array) gets exactly one response, with id "unknown"
\* and success = false, and the handler does not throw.
C2_MalformedGetsSentinel ==
    \A data \in Malformed : \A d \in Draws :
        LET r == Handle(data, d)
        IN  /\ ~r.threw
            /\ Len(r.out) = 1
            /\ r.out[1].id = "unknown"
            /\ r.out[1].success = FALSE

\* The two messages used to see that the connection still works.
PingAfter == Payload("object", "2", "ping", NoArtifact, NoPanelId)
ListAfter == Payload("object", "2", "list", NoArtifact, NoPanelId)

\* C3: an exception raised while a well-formed message is dispatched is
\* answered with success = false, the id of the request and the message of the
\* exception (its string form when it is not an Error); the handler does not
\* throw, and a ping and a list sent next are answered as usual.
C3_ExceptionBecomesFailure ==
    \A data \in Messages : \A d \in Draws :
        LET r == Handle(data, d)
            ping == handleMessage(r.w, PingAfter, now, 0, 0, "ok")
            lst == handleMessage(r.w, ListAfter, now, 0, 0, "ok")
        IN  r.exc.thrown =>
              /\ ~r.threw
              /\ r.out =
                   <<Response(data.id, FALSE,
                              [text |-> IF r.exc.isError THEN r.exc.message
                                        ELSE r.exc.str,
                               arg |-> ""],
                              NoData)>>
              /\ ping.out = <<Response("2", TRUE, NoError, NoData)>>
              /\ ~ping.threw
              /\ lst.out =
                   <<Response("2", TRUE, NoError,
                              [kind |-> "list", panelId |-> NoPanelId,
                               filePath |-> NoPath, panels |-> DOMAIN r.w.panels])>>
              /\ ~lst.threw

\* A registered renderer throws during an update of an open panel, and a file
\* write fails during a render.
C3_Witness ==
    /\ \E data \in Messages : \E d \in Draws :
          /\ data.action = "update"
          /\ data.panelId \in DOMAIN panels
          /\ Handle(data, d).exc = ThrownString
    /\ \E data \in Messages : \E d \in Draws :
          /\ data.action = "render"
          /\ Handle(data, d).exc = WriteError

\* The manager state once every notification in flight has been delivered.
RECURSIVE AfterNotifications(_, _)
AfterNotifications(w, pending) ==
    IF pending = {} THEN w
    ELSE LET h == CHOOSE x \in pending : TRUE
         IN  AfterNotifications(PanelDispose(w, h), pending \ {h})

\* C4: in every reachable state, once the notifications in flight are
\* delivered, list() is exactly the set of the ids of the panels live on the
\* display surface, each id naming its own live panel; no two panels that the
\* extension has not disposed share an id, so that a notification never removes
\* the entry of another panel; and an update of a live panel is not lost: it
\* succeeds and its content reaches that panel.
C4_ListIsLivePanels ==
    LET w == AfterNotifications(World, dismissed)
        live == {h \in Handles : Live(h)}
    IN  /\ list(w) = {webviews[h].listener : h \in live}
        /\ \A h \in live : w.panels[webviews[h].listener] = h
        /\ \A h1, h2 \in Handles :
              (h1 # h2 /\ ~webviews[h1].disposed /\ ~webviews[h2].disposed)
              => webviews[h1].listener # webviews[h2].listener
        /\ \A h \in live :
              LET u == update(World, webviews[h].listener, ArtJson, now, 0, "ok")
              IN  u.success /\ u.w.webviews[h].html = ShownHtml(ArtJson)

\* A notification is in flight for one panel while another panel, registered
\* by a request, is live.
C4_Witness ==
    /\ dismissed # {}
    /\ \E h \in Handles : Live(h) /\ webviews[h].html # NoHtml

\* C5: a panel id that was disposed is never active again, and show(artifact, p)
\* with p not active returns a newly generated id instead of p.
C5_IdsNeverReused ==
    /\ \A h \in Handles :
          webviews[h].disposed => webviews[h].listener \notin DOMAIN panels
    /\ \A data \in Messages : \A d \in Draws :
          (/\ data.action = "render"
           /\ data.artifact.present
           /\ ~Falsy(data.panelId)
           /\ data.panelId \notin DOMAIN panels)
          => show(World, data.artifact, data.panelId, now, d.ri, d.rf, d.io).panelId
                # data.panelId

\* C6: show(artifact) without a panel id returns an id that no panel was ever
\* registered under (the ids show returned or was given before).
C6_FreshIdDistinct ==
    \A data \in Messages : \A d \in Draws :
        (data.action = "render" /\ data.artifact.present /\ Falsy(data.panelId))
        => show(World, data.artifact, data.panelId, now, d.ri, d.rf, d.io).panelId
              \notin {webviews[h].listener : h \in Handles}

\* C7: show(artifact, p) with p active, when it returns, has created no panel,
\* returns p, leaves list() and every other panel as they were, and has set
\* the title and the content of p's panel from the artifact; the gateway
\* answers with panelId = p.
C7_ShowReusesActivePanel ==
    \A data \in Messages : \A d \in Draws :
        (/\ data.action = "render"
         /\ data.artifact.present
         /\ data.panelId \in DOMAIN panels)
        => LET r == show(World, data.artifact, data.panelId, now, d.ri, d.rf, d.io)
               h == panels[data.panelId]
               g == Handle(data, d)
           IN  ~r.exc.thrown =>
                 /\ Len(r.w.webviews) = Len(webviews)
                 /\ r.panelId = data.panelId
                 /\ list(r.w) = list(World)
                 /\ r.w.panels = panels
                 /\ r.w.webviews[h].title = ShownTitle(data.artifact)
                 /\ r.w.webviews[h].html = ShownHtml(data.artifact)
                 /\ \A k \in Handles \ {h} : r.w.webviews[k] = webviews[k]
                 /\ g.out[1].success
                 /\ g.out[1].data.panelId = data.panelId

\* A render into an active panel succeeds and changes what the panel shows.
C7_Witness ==
    \E data \in Messages : \E d \in Draws :
        /\ data.action = "render"
        /\ data.artifact.present
        /\ data.panelId \in DOMAIN panels
        /\ LET r == show(World, data.artifact, data.panelId, now, d.ri, d.rf, d.io)
               h == panels[data.panelId]
           IN  /\ ~r.exc.thrown
               /\ webviews[h].html # NoHtml
               /\ r.w.webviews[h].html # webviews[h].html
               /\ r.w.webviews[h].title # webviews[h].title

\* C8: update(p, artifact) with p not active returns success = false and no
\* file path and changes nothing; the gateway answers success = false with the
\* error "Panel not found" and no data.
C8_UpdateOfInactivePanel ==
    \A data \in Messages : \A d \in Draws :
        (/\ data.action = "update"
         /\ data.artifact.present
         /\ ~Falsy(data.panelId)
         /\ data.panelId \notin DOMAIN panels)
        => LET u == update(World, data.panelId, data.artifact, now, d.rf, d.io)
               g == Handle(data, d)
           IN  /\ ~u.success
               /\ u.filePath = NoPath
               /\ ~u.exc.thrown
               /\ u.w = World
               /\ g.w = World
               /\ g.out =
                    <<Response(data.id, FALSE,
                               [text |-> "Panel not found", arg |-> ""], NoData)>>

\* The store can persist (a workspace folder is open) and the id of a panel
\* that was closed is no longer active: an update of it would find nothing.
C8_Witness ==
    /\ root # NoRoot
    /\ \E h \in Handles :
          /\ webviews[h].disposed
          /\ webviews[h].listener \notin DOMAIN panels
          /\ ~update(World, webviews[h].listener, ArtJson, now, 0, "ok").success

\* C9: close(p) returns true exactly when p is active.  When it returns true
\* the panel has been disposed, p has left list(), and an update or a close of
\* p that follows reports it missing; when it returns false nothing changes.
\* The gateway reports success exactly when close returned true.
C9_Close ==
    \A p \in ClientPanelIds :
        LET c == close(World, p)
            g == Handle(Payload("object", "1", "close", NoArtifact, p),
                        [ri |-> 0, rf |-> 0, io |-> "ok"])
        IN  /\ c.ret = (p \in DOMAIN panels)
            /\ c.ret =>
                 /\ c.w.webviews[panels[p]].disposed
                 /\ p \notin list(c.w)
                 /\ ~update(c.w, p, ArtJson, now, 0, "ok").success
                 /\ ~close(c.w, p).ret
            /\ ~c.ret => c.w = World
            /\ ~Falsy(p) => g.out[1].success = c.ret /\ g.w = c.w

\* A panel is active and showing content: close returns true for it.
C9_Witness ==
    \E p \in DOMAIN panels :
        /\ webviews[panels[p]].html # NoHtml
        /\ close(World, p).ret

\* C10: the notification that panel p was dismissed leaves the manager in the
\* state close(p) leaves it in: p is not in list(), no file path is recorded
\* for p, and every other panel, its file path and the files are untouched.
C10_DismissalEqualsClose ==
    \A p \in DOMAIN panels :
        LET h == panels[p]
            n == PanelDispose(World, h)
            c == close(World, p).w
        IN  /\ n = c
            /\ p \notin list(n)
            /\ getFilePath(n, p) = NoPath
            /\ \A q \in (DOMAIN panels) \ {p} :
                  /\ q \in list(n)
                  /\ n.panels[q] = panels[q]
                  /\ getFilePath(n, q) = getFilePath(World, q)
                  /\ n.webviews[panels[q]] = webviews[panels[q]]
            /\ n.disk = disk

\* The user has dismissed a panel that has a recorded file path while another
\* panel is active.
C10_Witness ==
    \E p \in DOMAIN panels :
        /\ panels[p] \in dismissed
        /\ getFilePath(World, p) # NoPath
        /\ (DOMAIN panels) \ {p} # {}

\* C11: for an active panel p and any artifact, with or without a title,
\* update(p, artifact) and show(artifact, p) leave the same state (title,
\* content, file, recorded file path) and return the same file path.
C11_UpdateEqualsShow ==
    \A data \in Messages : \A d \in Draws :
        (/\ data.action = "update"
         /\ data.artifact.present
         /\ data.panelId \in DOMAIN panels)
        => LET u == update(World, data.panelId, data.artifact, now, d.rf, d.io)
               s == show(World, data.artifact, data.panelId, now, d.ri, d.rf, d.io)
           IN  /\ u.w = s.w
               /\ u.filePath = s.filePath
               /\ u.exc = s.exc

\* ------------------------------------------- SessionManager, called directly
\* Session directories kept by a cleanup range over 0..MaxKeep.
MaxKeep == 2
\* Session directories left by other runs of the extension.
MaxSessions == 3

\* The session ids of this run and of other runs, in ascending lexical order
\* (they differ in the digits of their date).
SessionOrder ==
    <<"20231230_000000_zz99", "20231231_000000_cd34", "20240101_000000_ab12",
      "20240102_000000_ef56">>
SessionIds == {SessionOrder[i] : i \in 1..Len(SessionOrder)}

\* a < b for two session ids, as String comparison orders them.
SessionLess(a, b) ==
    \E i, j \in 1..Len(SessionOrder) :
        SessionOrder[i] = a /\ SessionOrder[j] = b /\ i < j

\* The UTF-16 code units of a piece of text, for the pieces the model uses.
CharCodes(piece) ==
    CASE piece = "0" -> <<48>>
      [] piece = "1" -> <<49>>
      [] piece = "2" -> <<50>>
      [] piece = "3" -> <<51>>
      [] piece = "." -> <<46>>
      [] piece = ".." -> <<46, 46>>
      [] piece = "_" -> <<95>>
      [] piece = ".keep" -> <<46, 107, 101, 101, 112>>
      [] piece = "a" -> <<97>>
      [] piece = "b" -> <<98>>
      [] piece = "x" -> <<120>>
      [] piece = "y" -> <<121>>
      [] piece = "json" -> <<106, 115, 111, 110>>
      [] piece = "png" -> <<112, 110, 103>>
      [] piece = "txt" -> <<116, 120, 116>>
      [] piece = "widget" -> <<119, 105, 100, 103, 101, 116>>
      [] piece = "undefined" -> <<117, 110, 100, 101, 102, 105, 110, 101, 100>>

\* The code units of a file name.
RECURSIVE Spell(_)
Spell(name) ==
    IF name = <<>> THEN <<>> ELSE CharCodes(Head(name)) \o Spell(Tail(name))

\* a < b for two strings, as Array.prototype.sort() compares them: by code
\* units, a proper prefix first.
RECURSIVE CodesLess(_, _)
CodesLess(a, b) ==
    IF b = <<>> THEN FALSE
    ELSE IF a = <<>> THEN TRUE
    ELSE IF Head(a) # Head(b) THEN Head(a) < Head(b)
    ELSE CodesLess(Tail(a), Tail(b))

NameLess(a, b) == CodesLess(Spell(a), Spell(b))

\* f.startsWith('.')
startsWithDot(name) == Spell(name) # <<>> /\ Head(Spell(name)) = 46

\* Array.prototype.sort() of a set of distinct names: ascending.
RECURSIVE SortNames(_)
SortNames(S) ==
    IF S = {} THEN <<>>
    ELSE LET least == CHOOSE x \in S : \A y \in S \ {x} : NameLess(x, y)
         IN  <<least>> \o SortNames(S \ {least})

\* Array.prototype.reverse()
Reverse(seq) == [i \in 1..Len(seq) |-> seq[Len(seq) + 1 - i]]

\* fs.readdirSync(dir) of a session directory: the names of its files.
readdirSync(w, dir) ==
    {p.name : p \in {q \in DOMAIN w.disk : q.dir = dir /\ q.up = 0 /\ q.sub = <<>>}}

\* listArtifacts() as it would be without `.reverse()`.
ListedAscending(sp) ==
    [w |-> sp.w,
     ret |-> IF sp.ret = NoDir \/ sp.ret \notin sp.w.dirs THEN <<>>
             ELSE SortNames({f \in readdirSync(sp.w, sp.ret) : ~startsWithDot(f)})]

\* The listing of listArtifacts, given what getSessionPath did.
Listed(sp) ==
    [w |-> sp.w,
     ret |-> IF sp.ret = NoDir \/ sp.ret \notin sp.w.dirs THEN <<>>
             ELSE Reverse(SortNames({f \in readdirSync(sp.w, sp.ret) :
                                        ~startsWithDot(f)}))]

\* listArtifacts()
listArtifacts(w) == Listed(getSessionPath(w))

\* Array.prototype.sort() of a set of session ids: ascending.
RECURSIVE SortSessions(_)
SortSessions(S) ==
    IF S = {} THEN <<>>
    ELSE LET least == CHOOSE x \in S : \A y \in S \ {x} : SessionLess(x, y)
         IN  <<least>> \o SortSessions(S \ {least})

\* What listSessions makes of a session id: {id, path, files}.
SessionEntry(w, id) ==
    [id |-> id, path |-> [root |-> w.root, session |-> id],
     files |-> Cardinality(readdirSync(w, [root |-> w.root, session |-> id]))]

\* listSessions(): the directories under <root>/tmp/prettycli, newest first.
listSessions(w) ==
    IF w.root = NoRoot THEN <<>>
    ELSE LET ids == Reverse(SortSessions({d.session : d \in {e \in w.dirs :
                                                          e.root = w.root}}))
         IN  [i \in 1..Len(ids) |-> SessionEntry(w, ids[i])]

\* fs.rmSync(dir, {recursive: true, force: true})
rmSync(w, dir) ==
    [w EXCEPT !.dirs = @ \ {dir},
              !.disk = [p \in {q \in DOMAIN @ : ~(q.dir = dir /\ q.up = 0)} |-> @[p]]]

\* The loop of cleanupOldSessions as it would be without the test
\* `session.id !== this.sessionId`.
RECURSIVE DeleteAll(_, _, _)
DeleteAll(w, toDelete, deletedCount) ==
    IF toDelete = <<>> THEN [w |-> w, ret |-> deletedCount]
    ELSE DeleteAll(rmSync(w, Head(toDelete).path), Tail(toDelete), deletedCount + 1)

\* The loop of cleanupOldSessions over toDelete.
RECURSIVE DeleteOld(_, _, _)
DeleteOld(w, toDelete, deletedCount) ==
    IF toDelete = <<>> THEN [w |-> w, ret |-> deletedCount]
    ELSE IF Head(toDelete).id # w.sessionId
    THEN DeleteOld(rmSync(w, Head(toDelete).path), Tail(toDelete), deletedCount + 1)
    ELSE DeleteOld(w, Tail(toDelete), deletedCount)

\* sessions.slice(keepCount), for keepCount >= 0
Slice(sessions, keepCount) ==
    IF Len(sessions) > keepCount THEN SubSeq(sessions, keepCount + 1, Len(sessions))
    ELSE <<>>

\* cleanupOldSessions(keepCount)
cleanupOldSessions(w, keepCount) ==
    DeleteOld(w, Slice(listSessions(w), keepCount), 0)

\* getSessionId()
getSessionId(w) == w.sessionId

\* Files a store writes in one run.
MaxStoreFiles == 3

\* The workspace folders of the runs of the store: none, and two folders.
StoreRoots == Roots \cup {"/w2"}

\* Type tags handed to the store: two plain ones, and two that hold path
\* separators and dot segments (the gateway hands on any `type` it is sent).
StoreTypes == Types \cup {"a/b", "x/../../y"}

\* Extensions handed to saveBinaryArtifact.
Extensions == {"png", "a/b", "x/../../y"}

\* An artifact of the given type.
ArtOf(type) ==
    [present |-> TRUE, type |-> type, title |-> Undefined, data |-> "d1",
     path |-> Undefined]

\* A name a file manager or an editor leaves in a directory.
DotFile == <<".keep">>

\* new SessionManager(): the session id is generated, nothing is on disk yet
\* but what other runs left there.
InitStore ==
    /\ renderers = [t \in Types |-> IF t = "json" THEN "builtin" ELSE ""]
    /\ panels = <<>>
    /\ panelFiles = <<>>
    /\ webviews = <<>>
    /\ dismissed = {}
    /\ sessionId \in SessionIds
    /\ sessionPath = NoDir
    /\ root \in StoreRoots
    /\ dirs = {}
    /\ disk = <<>>
    /\ now = 0
    /\ NoCalls

\* The store operation ran within the bounds: its effects take place.
Stored(w) ==
    /\ Cardinality(DOMAIN w.disk) <= MaxStoreFiles
    /\ Commit(w)
    /\ UNCHANGED <<callVars, connVars, dismissed, sessionId, root, now>>

\* sessionManager.saveArtifact(artifact, content)
StoreSave ==
    \E type \in StoreTypes, r \in Rands, io \in {"ok", "fail"} :
        Stored(saveArtifact(World, ArtOf(type), "d1", now, r, io).w)

\* sessionManager.saveBinaryArtifact(artifact, data, extension)
StoreSaveBinary ==
    \E extension \in Extensions, r \in Rands, io \in {"ok", "fail"} :
        Stored(saveBinaryArtifact(World, ArtOf("json"), "d1", extension, now, r, io).w)

\* sessionManager.listArtifacts()
StoreListArtifacts == Stored(listArtifacts(World).w)

\* sessionManager.listSessions() and sessionManager.getSessionId(): they read.
StoreRead ==
    /\ listSessions(World) \in Seq([id : SessionIds, path : dirs, files : Nat])
    /\ getSessionId(World) = sessionId
    /\ UNCHANGED vars

\* sessionManager.cleanupOldSessions(keepCount)
StoreCleanup ==
    \E keepCount \in 0..MaxKeep :
        Stored(cleanupOldSessions(World, keepCount).w)

\* Another run of the extension left its session directory in a workspace.
ForeignSession ==
    \E id \in SessionIds \ {sessionId} :
        /\ Cardinality(dirs \ {sessionPath}) < MaxSessions
        /\ dirs' = dirs \cup {[root |-> "/ws", session |-> id]}
        /\ UNCHANGED <<callVars, connVars, renderers, panels, panelFiles, webviews, dismissed,
                       sessionId, sessionPath, root, disk, now>>

\* Something else puts a dot file into the session directory.
ForeignFile ==
    /\ sessionPath \in dirs
    /\ Cardinality(DOMAIN disk) < MaxStoreFiles
    /\ disk' = MapSet(disk, [dir |-> sessionPath, up |-> 0, sub |-> <<>>,
                             name |-> DotFile], "")
    /\ UNCHANGED <<callVars, connVars, renderers, panels, panelFiles, webviews, dismissed,
                   sessionId, sessionPath, root, dirs, now>>

\* The workspace folder is opened, closed or changed.
SetStoreRoot ==
    \E r \in StoreRoots :
        /\ root' = r
        /\ UNCHANGED <<callVars, connVars, renderers, panels, panelFiles, webviews, dismissed,
                       sessionId, sessionPath, dirs, disk, now>>

NextStore ==
    \/ StoreSave
    \/ StoreSaveBinary
    \/ StoreListArtifacts
    \/ StoreRead
    \/ StoreCleanup
    \/ ForeignSession
    \/ ForeignFile
    \/ SetStoreRoot
    \/ Tick

SpecStore == InitStore /\ [][NextStore]_vars

\* The files of a directory, with their contents.
FilesOf(w, dir) ==
    [p \in {q \in DOMAIN w.disk : q.dir = dir /\ q.up = 0 /\ q.sub = <<>>} |-> w.disk[p]]

\* The active session lies outside the window cleanupOldSessions(k) keeps.
ActiveOutsideWindow(k) ==
    \E i \in 1..Len(Slice(listSessions(World), k)) :
        Slice(listSessions(World), k)[i].id = sessionId

\* C12: once the store has a session directory, cleanupOldSessions(k) for
\* every k never deletes it, whatever the other session directories and its
\* rank among them: the directory and its files are still there, the store
\* still points at it, and a saveArtifact that follows writes into it.
C12_CleanupKeepsActive ==
    \A k \in 0..MaxKeep :
        sessionPath # NoDir
        => LET c == cleanupOldSessions(World, k)
           IN  /\ sessionPath \in dirs => sessionPath \in c.w.dirs
               /\ c.w.sessionPath = sessionPath
               /\ FilesOf(c.w, sessionPath) = FilesOf(World, sessionPath)
               /\ \A type \in Types, r \in Rands :
                    LET s == saveArtifact(c.w, ArtOf(type), "d1", now, r, "ok")
                    IN  /\ s.exc = NoExc
                        /\ s.ret.dir = sessionPath
                        /\ s.ret.up = 0
                        /\ sessionPath \in dirs => s.ret \in DOMAIN s.w.disk

\* The active session is older than the k kept ones, holds a file, and the
\* cleanup deletes another directory.
C12_Witness ==
    \E k \in 0..MaxKeep :
        /\ sessionPath \in dirs
        /\ FilesOf(World, sessionPath) # <<>>
        /\ ActiveOutsideWindow(k)
        /\ cleanupOldSessions(World, k).ret >= 1

\* C13: cleanupOldSessions(k) on n > k session directories deletes exactly
\* n - k of them and returns n - k, whatever the rank of the active session,
\* and the k most recent remain; on n <= k it deletes nothing and returns 0.
C13_DeletesAllButK ==
    \A k \in 0..MaxKeep :
        LET sessions == listSessions(World)
            n == Len(sessions)
            c == cleanupOldSessions(World, k)
        IN  IF n > k
            THEN /\ c.ret = n - k
                 /\ Cardinality(dirs \ c.w.dirs) = n - k
                 /\ \A i \in 1..k : sessions[i].path \in c.w.dirs
            ELSE c.ret = 0 /\ c.w = World

\* The store is uninitialized and no storage root is available.
NoStorage == root = NoRoot /\ sessionPath = NoDir

\* C14: while no storage root is available the store stays uninitialized:
\* saveArtifact and saveBinaryArtifact return null, throw nothing and change
\* nothing on disk or in the store, whatever the type tag and the extension;
\* a render or an update whose renderer does not throw still succeeds, shows
\* the content, and reports filePath = null.
C14_NoRootNoPersist ==
    NoStorage
    => /\ \A type \in StoreTypes, r \in Rands, io \in {"ok", "fail"} :
            /\ saveArtifact(World, ArtOf(type), "d1", now, r, io)
                 = [w |-> World, exc |-> NoExc, ret |-> NoPath]
            /\ \A extension \in Extensions :
                 saveBinaryArtifact(World, ArtOf(type), "d1", extension, now, r, io)
                   = [w |-> World, exc |-> NoExc, ret |-> NoPath]
       /\ \A data \in Messages : \A d \in Draws :
            (Renders(data) /\ ~renderArtifact(World, data.artifact).exc.thrown)
            => /\ data.action = "render"
                  => LET s == show(World, data.artifact, data.panelId, now, d.ri,
                                   d.rf, d.io)
                     IN  /\ s.exc = NoExc
                         /\ s.filePath = NoPath
                         /\ s.panelId \in DOMAIN s.w.panels
                         /\ s.w.webviews[s.w.panels[s.panelId]].html
                              = renderArtifact(World, data.artifact).html
                         /\ getFilePath(s.w, s.panelId) = NoPath
                         /\ s.w.disk = disk /\ s.w.dirs = dirs
                         /\ s.w.sessionPath = NoDir
               /\ (data.action = "update" /\ data.panelId \in DOMAIN panels)
                  => LET u == update(World, data.panelId, data.artifact, now, d.rf,
                                     d.io)
                     IN  /\ u.exc = NoExc
                         /\ u.success
                         /\ u.filePath = NoPath
                         /\ u.w.disk = disk /\ u.w.dirs = dirs
                         /\ u.w.sessionPath = NoDir

\* Without a storage root, a panel shows rendered content and has no file.
C14_Witness ==
    /\ NoStorage
    /\ \E p \in DOMAIN panels :
         /\ webviews[panels[p]].html # NoHtml
         /\ getFilePath(World, p) = NoPath

\* The store has no session directory: neither cached nor on disk.
Uninitialized(w) ==
    /\ w.sessionPath = NoDir
    /\ \A d \in w.dirs : d.session # w.sessionId

\* C15: the session directory is created, and the store activated, by the
\* first successful persist only: on a store that has none, listArtifacts,
\* listSessions, cleanupOldSessions and getSessionId leave it without one, and
\* so does a persist that fails.
C15_OnlyPersistCreates ==
    Uninitialized(World)
    => /\ Uninitialized(listArtifacts(World).w)
       /\ \A k \in 0..MaxKeep : Uninitialized(cleanupOldSessions(World, k).w)
       /\ \A type \in Types, r \in Rands :
            Uninitialized(saveArtifact(World, ArtOf(type), "d1", now, r, "fail").w)

\* The file path p is <dir>/<filename>, a single file name directly in dir.
DirectlyIn(p, dir) == p.dir = dir /\ p.up = 0 /\ p.sub = <<>> /\ p.name # NoName

\* What a persist did keeps the store on the session directory `dir`: the id
\* and the cached path are the same, no directory was created, and the path
\* returned, if any, is a file of dir.
StaysIn(s, dir) ==
    /\ s.w.sessionId = sessionId
    /\ s.w.sessionPath = dir
    /\ s.w.dirs = dirs
    /\ s.ret # NoPath => DirectlyIn(s.ret, dir)

\* C16: once the store is active, its session directory is the one of the
\* session id fixed at construction and never changes, also when the storage
\* root has changed or disappeared since: every persist returns a path in that
\* directory and leaves the store active on it, no operation makes the store
\* uninitialized again, and the store has created no other directory.
C16_SessionStable ==
    sessionPath # NoDir
    => /\ sessionPath.session = sessionId
       /\ \A d \in dirs : d.session = sessionId => d = sessionPath
       /\ \A type \in StoreTypes, r \in Rands, io \in {"ok", "fail"} :
            /\ StaysIn(saveArtifact(World, ArtOf(type), "d1", now, r, io), sessionPath)
            /\ \A extension \in Extensions :
                 StaysIn(saveBinaryArtifact(World, ArtOf(type), "d1", extension,
                                            now, r, io), sessionPath)
       /\ listArtifacts(World).w.sessionPath = sessionPath
       /\ \A k \in 0..MaxKeep :
            cleanupOldSessions(World, k).w.sessionPath = sessionPath

\* The persist returned a path, and that path is a single file name directly
\* in the session directory the store is active on.
WroteInside(s) == s.ret # NoPath => DirectlyIn(s.ret, s.w.sessionPath)

\* C17: for every type tag, also one that holds path separators or dot
\* segments, and every extension given to saveBinaryArtifact, the file a
\* persist writes is <session directory>/<filename> with a single file name
\* component.
C17_WritesInsideSession ==
    \A type \in StoreTypes, r \in Rands :
        /\ WroteInside(saveArtifact(World, ArtOf(type), "d1", now, r, "ok"))
        /\ \A extension \in Extensions :
             WroteInside(saveBinaryArtifact(World, ArtOf(type), "d1", extension,
                                            now, r, "ok"))

\* C18: file names are append-only: every successful save yields a path no
\* earlier save of the session produced, so no file is overwritten and the
\* session directory holds one file more after each successful persist.
C18_FilenamesDistinct ==
    \A type \in Types, r \in Rands :
        LET s == saveArtifact(World, ArtOf(type), "d1", now, r, "ok")
        IN  s.ret # NoPath
            => /\ s.ret \notin DOMAIN disk
               /\ Cardinality(DOMAIN FilesOf(s.w, s.w.sessionPath))
                    = Cardinality(DOMAIN FilesOf(World, s.w.sessionPath)) + 1

\* The request left the file it reports: the path is the file that now holds
\* the rendered page, the manager records it for the panel, and every file
\* that existed before is still there with its content.
JustWritten(r, id, html) ==
    (~r.exc.thrown /\ r.filePath # NoPath)
    => /\ r.filePath \in DOMAIN r.w.disk
       /\ r.w.disk[r.filePath] = html
       /\ getFilePath(r.w, id) = r.filePath
       /\ \A p \in DOMAIN disk : p \in DOMAIN r.w.disk /\ r.w.disk[p] = disk[p]

\* {type:"json", title:"A<B", data:..} with another payload than ArtJson.
ArtJsonOther == [ArtJson EXCEPT !.data = "d2"]

\* C19: after every show or update that succeeds while a storage root is
\* available, the returned filePath is the file just written, getFilePath of
\* the panel equals it, and the files written earlier are unchanged.
C19_FileJustWritten ==
    \A artifact \in {ArtJson, ArtWidget, ArtJsonOther} :
      \A panelId \in ClientPanelIds : \A d \in Draws :
        /\ JustWritten(show(World, artifact, panelId, now, d.ri, d.rf, d.io),
                       show(World, artifact, panelId, now, d.ri, d.rf, d.io).panelId,
                       renderArtifact(World, artifact).html)
        /\ panelId \in DOMAIN panels
           => JustWritten(update(World, panelId, artifact, now, d.rf, d.io),
                          panelId, renderArtifact(World, artifact).html)

\* The names in the directory dir that do not start with a dot.
Visible(w, dir) == {f \in readdirSync(w, dir) : ~startsWithDot(f)}

\* The sequence L holds exactly the names of S, each once, in descending
\* lexical order.
DescendingListOf(L, S) ==
    /\ {L[i] : i \in 1..Len(L)} = S
    /\ Len(L) = Cardinality(S)
    /\ \A i, j \in 1..Len(L) : i < j => NameLess(L[j], L[i])

\* C20: listArtifacts() returns exactly the names in the session directory
\* that do not start with a dot, each once, in descending lexical order, and
\* the empty sequence when the store has no session directory.
C20_ListArtifacts ==
    /\ Uninitialized(World) => listArtifacts(World).ret = <<>>
    /\ sessionPath = NoDir /\ root = NoRoot => listArtifacts(World) = [w |-> World, ret |-> <<>>]
    /\ sessionPath \in dirs
       => /\ DescendingListOf(listArtifacts(World).ret, Visible(World, sessionPath))
          /\ listArtifacts(World).w = World

\* The session directory holds a dot file and two artifact files.
C20_Witness ==
    /\ sessionPath \in dirs
    /\ DotFile \in readdirSync(World, sessionPath)
    /\ Len(listArtifacts(World).ret) >= 2

\* C21: listArtifacts() is newest-first: an artifact persisted now, after
\* everything the session directory holds, is listed before all of them.
C21_NewestFirst ==
    \A type \in Types, r \in Rands :
        LET s == saveArtifact(World, ArtOf(type), "d1", now, r, "ok")
        IN  (s.ret # NoPath /\ s.ret \notin DOMAIN disk)
            => listArtifacts(s.w).ret[1] = s.ret.name

\* The type tags of the extension table, and tags outside it.
TableTags ==
    {"chart", "table", "diff", "web", "file", "markdown", "json", "image", "csv",
     "xlsx"}
AllTags == TableTags \cup StoreTypes \cup {"constructor", "toString", "__proto__"}

\* The type -> extension table of the specification.
TableExtension(type) ==
    IF type \in {"chart", "table", "diff", "web"} THEN "html"
    ELSE IF type = "markdown" THEN "md"
    ELSE IF type \in {"json", "csv", "xlsx"} THEN type
    ELSE IF type = "image" THEN "png"
    ELSE "txt"

\* The extension of a file name: what follows its last dot.
RECURSIVE ExtensionOf(_)
ExtensionOf(name) ==
    IF name = <<>> THEN <<>>
    ELSE IF \E i \in 2..Len(name) : name[i] = "." THEN ExtensionOf(Tail(name))
    ELSE IF Head(name) = "." THEN Tail(name)
    ELSE <<>>

\* The file the persist wrote, if any, has the extension of the table.
TableExtended(s, type) ==
    s.ret # NoPath => ExtensionOf(s.ret.name) = <<TableExtension(type)>>

\* C22: the extension of a file persisted by saveArtifact is the one the table
\* gives for the type tag, and txt for every tag outside the table, whatever
\* the tag; getExtension is that table.
C22_ExtensionByTable ==
    \A type \in AllTags, r \in Rands :
        /\ getExtension(type) = TableExtension(type)
        /\ TableExtended(saveArtifact(World, ArtOf(type), "d1", now, r, "ok"), type)

\* ---------------------------------------- PluginManager and renderers, as text
\* Longest free-text field of a payload.
MaxText == 1

\* A text is the sequence of its characters; a markup is the sequence of the
\* pieces it was put together from: the pieces of the templates, which are
\* longer than one character, and what became of the characters of the texts
\* embedded in them.
Chars == {"a", "&", "<", ">", "\"", "'"}
Texts == UNION {[1..n -> Chars] : n \in 0..MaxText}

\* The characters escapeHtml replaces.
Special == {"&", "<", ">", "\"", "'"}

\* escapeHtml of one character: map[char] for the five it matches.
Entity(char) ==
    CASE char = "&" -> "&amp;"
      [] char = "<" -> "&lt;"
      [] char = ">" -> "&gt;"
      [] char = "\"" -> "&quot;"
      [] char = "'" -> "&#039;"
      [] OTHER -> char

\* escapeHtml(text) on a text given by its characters.
escapeText(text) == [i \in 1..Len(text) |-> Entity(text[i])]

\* The characters of a type tag.
TagText(type) ==
    CASE type = "<b>" -> <<"<", "b", ">">>
      [] OTHER -> <<ToStr(type)>>

\* Payloads by their shape: undefined, null, a string, and objects with the
\* free-text fields the built-in renderers read, every one holding `text`:
\* {url}, {html}, {content}, {src, alt}, and a bar chart
\* {labels:[text], datasets:[{label:text, color:text, data:[1]}]}; and two
\* shapes another extension can hand to showArtifact but JSON cannot carry: an
\* object that refers to itself, and a BigInt.
PayloadKinds ==
    {"undefined", "null", "string", "url", "html", "content", "image", "chart",
     "circular", "bigint"}
Payloads == {[kind |-> k, text |-> t] : k \in PayloadKinds, t \in Texts}

\* JSON.stringify of the characters of a string: a quote gets a backslash.
RECURSIVE JsonQuoted(_)
JsonQuoted(text) ==
    IF text = <<>> THEN <<>>
    ELSE (IF Head(text) = "\"" THEN <<"\\", "\"">> ELSE <<Head(text)>>)
         \o JsonQuoted(Tail(text))

\* JSON.stringify throws a TypeError for a circular structure and for a BigInt.
StringifyThrows(data) == data.kind \in {"circular", "bigint"}

\* JSON.stringify(data, null, 2), and what the template makes of undefined.
\* The quotes JSON.stringify puts around keys and strings are written (quote),
\* to tell them from the quotes of the payload.
Stringify(data) ==
    CASE data.kind \in {"undefined", "circular", "bigint"} -> <<"undefined">>
      [] data.kind = "null" -> <<"null">>
      [] data.kind = "string" -> <<"(quote)">> \o JsonQuoted(data.text) \o <<"(quote)">>
      [] data.kind = "image" ->
            <<"{(quote)src(quote): (quote)">> \o JsonQuoted(data.text)
                \o <<"(quote), (quote)alt(quote): (quote)">> \o JsonQuoted(data.text)
                \o <<"(quote)}">>
      [] data.kind = "chart" ->
            <<"{(quote)labels(quote): [(quote)">> \o JsonQuoted(data.text)
                \o <<"(quote)], (quote)datasets(quote): [{(quote)label(quote): (quote)">>
                \o JsonQuoted(data.text)
                \o <<"(quote), (quote)color(quote): (quote)">> \o JsonQuoted(data.text)
                \o <<"(quote), (quote)data(quote): [1]}]}">>
      [] OTHER ->
            <<"{(quote)", data.kind, "(quote): (quote)">> \o JsonQuoted(data.text)
                \o <<"(quote)}">>

\* An artifact as render reads it: a type tag, a title (the empty text when
\* absent) and a payload.
TextArtifact(type, title, data) == [type |-> type, title |-> title, data |-> data]

\* `const {..} = artifact.data` throws for undefined and null.
Destructures(data) == data.kind \notin {"undefined", "null"}

\* data.<field> for the fields of the payload shapes; NoField is undefined.
NoField == <<"<undefined>">>
Field(data, field) ==
    CASE data.kind = field -> data.text
      [] data.kind = "image" /\ field \in {"src", "alt"} -> data.text
      [] data.kind = "chart" /\ field \in {"label", "color"} -> data.text
      [] OTHER -> NoField

\* JavaScript truthiness of an optional string field.
Truthy(text) == text # NoField /\ text # <<>>

\* A thrown TypeError.
TypeErrorOf(message) ==
    [thrown |-> TRUE, isError |-> TRUE, message |-> message, str |-> "TypeError"]

Rendered(pieces) == [exc |-> NoExc, markup |-> pieces]
Threw(exc) == [exc |-> exc, markup |-> <<>>]

\* ${title ? `<h3>${escapeHtml(title)}</h3>` : ''}
TitleHeading(title) ==
    IF title = <<>> THEN <<>> ELSE <<"<h3>">> \o escapeText(title) \o <<"</h3>">>

\* WebRenderer.render
WebRendererRender(artifact) ==
    IF ~Destructures(artifact.data) THEN Threw(TypeErrorNoData)
    ELSE IF Truthy(Field(artifact.data, "url"))
    THEN Rendered(<<"<div>">> \o TitleHeading(artifact.title)
                  \o <<"<a href=(quote)">> \o escapeText(Field(artifact.data, "url"))
                  \o <<"(quote)>(link)">> \o escapeText(Field(artifact.data, "url"))
                  \o <<"</a><iframe src=(quote)">>
                  \o escapeText(Field(artifact.data, "url"))
                  \o <<"(quote)></iframe></div>">>)
    ELSE IF Truthy(Field(artifact.data, "html"))
    THEN Rendered(<<"<div>">> \o TitleHeading(artifact.title) \o <<"<div>(html)">>
                  \o Field(artifact.data, "html") \o <<"</div></div>">>)
    ELSE Rendered(<<"<div>No content provided</div>">>)

\* JsonRenderer.render for a string content (renderValue's string branch) and
\* for a missing content (String(undefined)).
JsonRendererRender(artifact) ==
    IF ~Destructures(artifact.data) THEN Threw(TypeErrorNoData)
    ELSE Rendered(<<"<div>">> \o TitleHeading(artifact.title) \o <<"<pre>(json)">>
                  \o (IF Field(artifact.data, "content") = NoField
                      THEN <<"undefined">>
                      ELSE <<"<span class=(quote)json-string(quote)>(quote)">>
                           \o escapeText(Field(artifact.data, "content"))
                           \o <<"(quote)</span>">>)
                  \o <<"</pre></div><script>(collapse)</script>">>)

\* ImageRenderer.render: escapeHtml(src) throws when src is undefined.
ImageRendererRender(artifact) ==
    IF ~Destructures(artifact.data) THEN Threw(TypeErrorNoData)
    ELSE IF Field(artifact.data, "src") = NoField
    THEN Threw(TypeErrorOf("Cannot read properties of undefined (reading 'replace')"))
    ELSE Rendered(<<"<div>">> \o TitleHeading(artifact.title)
                  \o <<"<img src=(quote)">> \o escapeText(Field(artifact.data, "src"))
                  \o <<"(quote) alt=(quote)">> \o escapeText(Field(artifact.data, "alt"))
                  \o <<"(quote) style=(quote)max-width: 100%; height: auto(quote) />">>
                  \o (IF Truthy(Field(artifact.data, "alt"))
                      THEN <<"<p>">> \o escapeText(Field(artifact.data, "alt")) \o <<"</p>">>
                      ELSE <<>>)
                  \o <<"</div>">>)

\* dataset.color || colors[di % colors.length], for the first dataset
BarColor(data) ==
    IF Truthy(Field(data, "color")) THEN Field(data, "color") ELSE <<"#4CAF50">>

\* ChartRenderer.render -> renderBarChart for one label and one dataset of one
\* value: the bar with its <title>, the x label, the legend.  datasets.flatMap
\* throws when the payload has no datasets.
ChartRendererRender(artifact) ==
    IF ~Destructures(artifact.data) THEN Threw(TypeErrorNoData)
    ELSE IF artifact.data.kind # "chart"
    THEN Threw(TypeErrorOf("Cannot read properties of undefined (reading 'flatMap')"))
    ELSE Rendered(<<"<div class=(quote)chart-container(quote)>">>
                  \o TitleHeading(artifact.title)
                  \o <<"<svg><rect fill=(quote)">> \o BarColor(artifact.data)
                  \o <<"(quote)><title>">> \o escapeText(Field(artifact.data, "label"))
                  \o <<": 1</title></rect><text>">>
                  \o escapeText(Field(artifact.data, "label"))
                  \o <<"</text></svg><div><span style=(quote)background: ">>
                  \o BarColor(artifact.data) \o <<"(quote)></span>">>
                  \o escapeText(Field(artifact.data, "label")) \o <<"</div></div>">>)

\* The render of the built-in renderer of a type.
BuiltinRender(artifact) ==
    CASE artifact.type = "json" -> JsonRendererRender(artifact)
      [] artifact.type = "web" -> WebRendererRender(artifact)
      [] artifact.type = "image" -> ImageRendererRender(artifact)
      [] artifact.type = "chart" -> ChartRendererRender(artifact)

\* renderer.render(artifact) of the renderer registered under `name`: the
\* built-in one of the type, a plugin whose render throws, or a plugin that
\* returns markup of its own.
RenderBy(name, artifact) ==
    CASE name = "builtin" -> BuiltinRender(artifact)
      [] name = "thrower" -> Threw(ThrownString)
      [] OTHER -> Rendered(<<"<p>(plugin)", name, "</p>">>)

\* PluginManager.renderFallback(artifact), as text.
Fallback(artifact) ==
    IF StringifyThrows(artifact.data)
    THEN Threw(TypeErrorOf("Do not know how to serialize"))
    ELSE Rendered(<<"<div class=(quote)fallback(quote)><h3>", "Unknown artifact type: ">>
                  \o TagText(artifact.type) \o <<"</h3><pre>">>
                  \o Stringify(artifact.data) \o <<"</pre></div>">>)

\* PluginManager.hasRenderer(type)
hasRenderer(rs, type) == type \in DOMAIN rs /\ rs[type] # ""

\* PluginManager.listTypes(): the keys of the map
listTypes(rs) == {type \in DOMAIN rs : rs[type] # ""}

\* PluginManager.render(artifact), as text.
render(rs, artifact) ==
    IF getRenderer(rs, artifact.type) = "" THEN Fallback(artifact)
    ELSE RenderBy(getRenderer(rs, artifact.type), artifact)

\* The type tags of a registry: four with a built-in renderer, two without.
BuiltinTypes == {"json", "web", "image", "chart"}
RenderTypes == BuiltinTypes \cup {"widget", "<b>"}

\* The renderers register is called with: plugins, and the built-in ones.
PluginRenderers ==
    {[type |-> t, name |-> n] : t \in {"json", "widget"},
                                n \in {"custom", "other", "thrower"}}
      \cup {[type |-> t, name |-> "builtin"] : t \in BuiltinTypes}

\* The artifacts render is called with: every type, every payload shape with
\* every text in its fields, without a title and with that text as title.
TextArtifacts ==
    {TextArtifact(t, title, d) : t \in RenderTypes, d \in Payloads,
                                 title \in {<<>>, <<"<">>}}

\* After registerBuiltinRenderers(): nothing has been rendered.
InitRender ==
    /\ renderers = [t \in RenderTypes |-> IF t \in BuiltinTypes THEN "builtin" ELSE ""]
    /\ panels = <<>>
    /\ panelFiles = <<>>
    /\ webviews = <<>>
    /\ dismissed = {}
    /\ sessionId = "20240101_000000_ab12"
    /\ sessionPath = NoDir
    /\ root = NoRoot
    /\ dirs = {}
    /\ disk = <<>>
    /\ now = 0
    /\ NoCalls

\* pluginManager.render(artifact)
RenderCall ==
    \E a \in TextArtifacts :
        /\ ~markup.called
        /\ rendering' = a
        /\ markup' = [called |-> TRUE] @@ render(renderers, a)
        /\ UNCHANGED <<connVars, renderers, panels, panelFiles, webviews, dismissed, sessionId,
                       sessionPath, root, dirs, disk, now, original, modified, lcs,
                       diffResult>>

\* pluginManager.register(renderer)
RegisterRenderer ==
    \E renderer \in PluginRenderers :
        /\ ~markup.called
        /\ renderers' = register(renderers, renderer)
        /\ UNCHANGED <<callVars, connVars, panels, panelFiles, webviews, dismissed, sessionId,
                       sessionPath, root, dirs, disk, now>>

\* pluginManager.unregister(type)
UnregisterRenderer ==
    \E type \in {"json", "widget", "web"} :
        /\ ~markup.called
        /\ renderers' = unregister(renderers, type)
        /\ UNCHANGED <<callVars, connVars, panels, panelFiles, webviews, dismissed, sessionId,
                       sessionPath, root, dirs, disk, now>>

\* The caller has taken the markup: the call is over.
RenderReturn ==
    /\ markup.called
    /\ rendering' = NoArtifact
    /\ markup' = NotRendered
    /\ UNCHANGED <<connVars, renderers, panels, panelFiles, webviews, dismissed, sessionId,
                   sessionPath, root, dirs, disk, now, original, modified, lcs,
                   diffResult>>

NextRender ==
    \/ RenderCall
    \/ RenderReturn
    \/ RegisterRenderer
    \/ UnregisterRenderer

SpecRender == InitRender /\ [][NextRender]_vars

\* ---------------------------------------------------------------------------
\* DiffRenderer: computeDiff and longestCommonSubsequence over arrays of lines.
\* Arrays are sequences; the source's indices count from 0, so element k of
\* the source is element k + 1 here.

MaxLines == 3

Lines == {"a", "b", "x"}

LineSeqs == UNION {[1..n -> Lines] : n \in 0..MaxLines}

\* array[k]; reading past the end gives undefined
At(array, k) == IF k < Len(array) THEN array[k + 1] ELSE "undefined"

Math_max(x, y) == IF x >= y THEN x ELSE y

\* num: null of an empty row (line numbers start at 1)
NoNum == 0

EmptyRow == [line |-> "", type |-> "empty", num |-> NoNum]

\* A same row numbered from 0.
SameRowFromZero(array, k) == [line |-> At(array, k), type |-> "same", num |-> k]

SameRow(array, k) == [line |-> At(array, k), type |-> "same", num |-> k + 1]

\* A removed line shown as an unchanged one.
RemovedRowAsSame(array, k) == SameRow(array, k)

RemovedRow(array, k) == [line |-> At(array, k), type |-> "removed", num |-> k + 1]

\* An added row that loses its line.
AddedRowBlank(array, k) == [line |-> "", type |-> "added", num |-> k + 1]

AddedRow(array, k) == [line |-> At(array, k), type |-> "added", num |-> k + 1]

\* The table dp of longestCommonSubsequence: dp[i][j] is the length found for
\* the first i lines of a and the first j lines of b.
LcsTable(a, b) ==
    LET dp[i \in 0..Len(a), j \in 0..Len(b)] ==
            IF i = 0 \/ j = 0 THEN 0
            ELSE IF a[i] = b[j] THEN dp[i - 1, j - 1] + 1
            ELSE Math_max(dp[i - 1, j], dp[i, j - 1])
    IN  [i \in 0..Len(a) |-> [j \in 0..Len(b) |-> dp[i, j]]]

\* The backtracking loop of longestCommonSubsequence from cell (i, j).
RECURSIVE Backtrack(_, _, _, _, _, _)
Backtrack(a, b, dp, i, j, result) ==
    IF ~(i > 0 /\ j > 0) THEN result
    ELSE IF a[i] = b[j] THEN Backtrack(a, b, dp, i - 1, j - 1, <<a[i]>> \o result)
    ELSE IF dp[i - 1][j] > dp[i][j - 1] THEN Backtrack(a, b, dp, i - 1, j, result)
    ELSE Backtrack(a, b, dp, i, j - 1, result)

\* Only the lines the two arrays share at their start.
RECURSIVE commonPrefix(_, _)
commonPrefix(a, b) ==
    IF a = <<>> \/ b = <<>> \/ Head(a) # Head(b) THEN <<>>
    ELSE <<Head(a)>> \o commonPrefix(Tail(a), Tail(b))

longestCommonSubsequence(a, b) ==
    Backtrack(a, b, LcsTable(a, b), Len(a), Len(b), <<>>)

\* The locals of computeDiff before its loop.
DiffStart ==
    [oi |-> 0, mi |-> 0, li |-> 0, left |-> <<>>, right |-> <<>>,
     addedCount |-> 0, removedCount |-> 0]

\* A common line treated as a removal: the cursor into the common lines stays.
PushSameAsRemoved(orig, modi, st) ==
    [st EXCEPT !.left = Append(@, RemovedRow(orig, st.oi)),
               !.right = Append(@, EmptyRow),
               !.oi = @ + 1, !.removedCount = @ + 1]

PushSame(orig, modi, st) ==
    [st EXCEPT !.left = Append(@, SameRow(orig, st.oi)),
               !.right = Append(@, SameRow(modi, st.mi)),
               !.oi = @ + 1, !.mi = @ + 1, !.li = @ + 1]

PushAdded(modi, st) ==
    [st EXCEPT !.left = Append(@, EmptyRow),
               !.right = Append(@, AddedRow(modi, st.mi)),
               !.mi = @ + 1, !.addedCount = @ + 1]

PushRemoved(orig, st) ==
    [st EXCEPT !.left = Append(@, RemovedRow(orig, st.oi)),
               !.right = Append(@, EmptyRow),
               !.oi = @ + 1, !.removedCount = @ + 1]

\* A loop body that emits the lines added before a common line first, and
\* the lines removed before it after them.
DiffStepAddedFirst(orig, modi, common, st) ==
    IF st.mi < Len(modi)
         /\ (st.li >= Len(common) \/ At(modi, st.mi) # At(common, st.li))
    THEN PushAdded(modi, st)
    ELSE IF st.oi < Len(orig)
              /\ (st.li >= Len(common) \/ At(orig, st.oi) # At(common, st.li))
    THEN PushRemoved(orig, st)
    ELSE PushSame(orig, modi, st)

\* One pass of the body of computeDiff's while loop.
DiffStep(orig, modi, common, st) ==
    IF st.li < Len(common) /\ st.oi < Len(orig) /\ At(orig, st.oi) = At(common, st.li)
    THEN IF st.mi < Len(modi) /\ At(modi, st.mi) = At(common, st.li)
         THEN PushSame(orig, modi, st)
         ELSE PushAdded(modi, st)
    ELSE IF st.oi < Len(orig)
              /\ (st.li >= Len(common) \/ At(orig, st.oi) # At(common, st.li))
    THEN PushRemoved(orig, st)
    ELSE IF st.mi < Len(modi) THEN PushAdded(modi, st)
    ELSE st

RECURSIVE DiffLoop(_, _, _, _)
DiffLoop(orig, modi, common, st) ==
    IF st.oi < Len(orig) \/ st.mi < Len(modi)
    THEN DiffLoop(orig, modi, common, DiffStep(orig, modi, common, st))
    ELSE st

DiffResultOf(st) ==
    [left |-> st.left, right |-> st.right,
     addedCount |-> st.addedCount, removedCount |-> st.removedCount]

\* A diff that takes nothing as common: every line removed, then every line added.
computeDiffNoLcs(orig, modi) ==
    DiffResultOf(DiffLoop(orig, modi, <<>>, DiffStart))

computeDiff(orig, modi) ==
    DiffResultOf(DiffLoop(orig, modi, longestCommonSubsequence(orig, modi), DiffStart))

\* The renderer and the store stay as built; the two arrays of lines are any
\* arrays of up to MaxLines lines, repeated lines and the empty array included.
InitDiff ==
    /\ renderers = [t \in RenderTypes |-> IF t \in BuiltinTypes THEN "builtin" ELSE ""]
    /\ panels = <<>>
    /\ panelFiles = <<>>
    /\ webviews = <<>>
    /\ dismissed = {}
    /\ sessionId = "20240101_000000_ab12"
    /\ sessionPath = NoDir
    /\ root = NoRoot
    /\ dirs = {}
    /\ disk = <<>>
    /\ now = 0
    /\ rendering = NoArtifact
    /\ markup = NotRendered
    /\ original \in LineSeqs
    /\ modified \in LineSeqs
    /\ lcs = <<>>
    /\ diffResult = NoDiff
    /\ NoConnection

\* this.computeDiff(originalLines, modifiedLines)
ComputeDiff ==
    /\ diffResult = NoDiff
    /\ lcs' = longestCommonSubsequence(original, modified)
    /\ diffResult' = computeDiff(original, modified)
    /\ UNCHANGED <<connVars, renderers, panels, panelFiles, webviews, dismissed, sessionId,
                   sessionPath, root, dirs, disk, now, rendering, markup, original,
                   modified>>

NextDiff == ComputeDiff

SpecDiff == InitDiff /\ [][NextDiff]_vars

\* ---------------------------------------------------------------------------
\* DiffRenderer.render: the two text bodies of a diff artifact are split into
\* lines, aligned by computeDiff and laid out in two panels.  A body is the
\* sequence of its characters, a line the sequence of the characters between
\* two line feeds.

MaxBody == 3

BodyChars == {"a", "<", "\n"}

Bodies == UNION {[1..n -> BodyChars] : n \in 0..MaxBody}

\* text.split('\n'), with `line` the characters read since the last line feed
RECURSIVE SplitFrom(_, _)
SplitFrom(text, line) ==
    IF text = <<>> THEN <<line>>
    ELSE IF Head(text) = "\n" THEN <<line>> \o SplitFrom(Tail(text), <<>>)
    ELSE SplitFrom(Tail(text), Append(line, Head(text)))

split(text) == SplitFrom(text, <<>>)

\* One row of renderPanel: class, line number, prefix, escaped line.
PanelRow(row) ==
    <<"<tr class=(quote)",
      IF row.type = "removed" THEN "line-removed"
      ELSE IF row.type = "added" THEN "line-added" ELSE "",
      "(quote)><td>",
      IF row.num # NoNum THEN ToString(row.num) ELSE "",
      "</td><td>",
      IF row.type = "removed" THEN "-" ELSE IF row.type = "added" THEN "+" ELSE " ",
      "</td><td>">>
      \o (IF row.type = "empty" THEN <<>> ELSE escapeText(row.line))
      \o <<"</td></tr>">>

RECURSIVE PanelRows(_)
PanelRows(rows) ==
    IF rows = <<>> THEN <<>> ELSE PanelRow(Head(rows)) \o PanelRows(Tail(rows))

\* renderPanel(lines, side)
renderPanel(rows) == <<"<table><tbody>">> \o PanelRows(rows) \o <<"</tbody></table>">>

\* The markup of DiffRenderer.render for the alignment `result`; no paths and
\* no language are given.
DiffMarkup(title, result) ==
    <<"<div>">> \o TitleHeading(title)
      \o <<"<div class=(quote)diff-container(quote)><span>Original</span>">>
      \o renderPanel(result.left)
      \o <<"<span>Modified</span>">> \o renderPanel(result.right)
      \o <<"</div><span>- ", ToString(result.removedCount), " removed</span><span>+ ",
           ToString(result.addedCount), " added</span></div>">>

\* Diff artifacts: every pair of bodies, and one whose data is missing.
DiffArtifacts ==
    {TextArtifact("diff", <<>>, [kind |-> "diff", original |-> o, modified |-> m]) :
        o \in Bodies, m \in Bodies}
      \cup {TextArtifact("diff", <<>>, [kind |-> "undefined", original |-> <<>>,
                                        modified |-> <<>>])}

InitDiffRender ==
    /\ renderers = [t \in RenderTypes |-> IF t \in BuiltinTypes THEN "builtin" ELSE ""]
    /\ panels = <<>>
    /\ panelFiles = <<>>
    /\ webviews = <<>>
    /\ dismissed = {}
    /\ sessionId = "20240101_000000_ab12"
    /\ sessionPath = NoDir
    /\ root = NoRoot
    /\ dirs = {}
    /\ disk = <<>>
    /\ now = 0
    /\ rendering \in DiffArtifacts
    /\ markup = NotRendered
    /\ original = <<>>
    /\ modified = <<>>
    /\ lcs = <<>>
    /\ diffResult = NoDiff
    /\ NoConnection

\* DiffRenderer.render(artifact): destructuring a missing payload throws before
\* anything is computed.
DiffRendererRender ==
    /\ ~markup.called
    /\ IF ~Destructures(rendering.data)
       THEN /\ markup' = [called |-> TRUE] @@ Threw(TypeErrorNoData)
            /\ UNCHANGED <<original, modified, lcs, diffResult>>
       ELSE /\ original' = split(rendering.data.original)
            /\ modified' = split(rendering.data.modified)
            /\ lcs' = longestCommonSubsequence(original', modified')
            /\ diffResult' = computeDiff(original', modified')
            /\ markup' = [called |-> TRUE]
                           @@ Rendered(DiffMarkup(rendering.title, diffResult'))
    /\ UNCHANGED <<connVars, renderers, panels, panelFiles, webviews, dismissed, sessionId,
                   sessionPath, root, dirs, disk, now, rendering>>

NextDiffRender == DiffRendererRender

SpecDiffRender == InitDiffRender /\ [][NextDiffRender]_vars

\* ---------------------------------------------------------------------------
\* One websocket connection, with handleMessage followed step by step: frames
\* arrive at the socket at any time; the event loop emits a 'message' event for
\* the oldest one, and the listener calls handleMessage, which parses the
\* frame, dispatches it and sends the response.

MaxArrivals == 3

\* The frames a client sends on the connection.
ConnFrames ==
    {Payload("object", "1", "render", ArtJson, NoPanelId),
     Payload("object", "2", "render", ArtWidget, CallerPanelId),
     Payload("object", "1", "close", NoArtifact, CallerPanelId),
     Payload("object", "2", "list", NoArtifact, NoPanelId),
     Payload("invalid", Undefined, Undefined, NoArtifact, NoPanelId),
     Payload("null", Undefined, Undefined, NoArtifact, NoPanelId)}

\* An event loop that emits an event whatever is running.
CallStackAny(calls) == TRUE

\* The event loop emits the next event only when no JavaScript is running:
\* handleMessage has no await, so a call of it ends before the next begins.
CallStackEmpty(calls) == calls = <<>>

\* The calls under way without the k-th.
Returns(calls, k) ==
    [i \in 1..(Len(calls) - 1) |-> IF i < k THEN calls[i] ELSE calls[i + 1]]

\* What ws.send was called with, tagged with the arrival number of the frame
\* that is answered.
Sent(seq, out) == [i \in 1..Len(out) |-> [seq |-> seq, response |-> out[i]]]

InitConn ==
    /\ renderers = [t \in Types |-> IF t = "json" THEN "builtin" ELSE ""]
    /\ panels = <<>>
    /\ panelFiles = <<>>
    /\ webviews = <<>>
    /\ dismissed = {}
    /\ sessionId = "20240101_000000_ab12"
    /\ sessionPath = NoDir
    /\ root \in Roots
    /\ dirs = {}
    /\ disk = <<>>
    /\ now = 0
    /\ NoCalls

\* A frame arrives at the socket.
FrameArrives ==
    \E data \in ConnFrames :
        /\ arrived < MaxArrivals
        /\ arrived' = arrived + 1
        /\ inbox' = Append(inbox, [seq |-> arrived + 1, data |-> data])
        /\ UNCHANGED <<callVars, handling, outbox, renderers, panels, panelFiles,
                       webviews, dismissed, sessionId, sessionPath, root, dirs, disk,
                       now>>

\* ws.on('message'): handleMessage is called with the oldest frame and parses
\* it; text that is not JSON is answered at once and the call returns.
MessageEvent ==
    /\ inbox # <<>>
    /\ CallStackEmpty(handling)
    /\ inbox' = Tail(inbox)
    /\ IF Head(inbox).data.kind = "invalid"
       THEN /\ outbox' = outbox \o Sent(Head(inbox).seq,
                                        <<Failure("unknown", "Invalid JSON")>>)
            /\ handling' = handling
       ELSE /\ handling' = Append(handling,
                                  [pc |-> "parsed", seq |-> Head(inbox).seq,
                                   data |-> Head(inbox).data, out |-> <<>>])
            /\ outbox' = outbox
    /\ UNCHANGED <<callVars, arrived, renderers, panels, panelFiles, webviews,
                   dismissed, sessionId, sessionPath, root, dirs, disk, now>>

\* The log line and the second try block up to the response: for the frame
\* `null` the read of message.action throws and the call ends; otherwise
\* processMessage runs, with its rendering and its file write.
Dispatch ==
    \E k \in 1..Len(handling) :
        /\ handling[k].pc = "parsed"
        /\ IF handling[k].data.kind = "null"
           THEN /\ handling' = Returns(handling, k)
                /\ UNCHANGED <<renderers, panels, panelFiles, webviews, sessionPath,
                               dirs, disk>>
           ELSE \E ri \in RandomIds(handling[k].data),
                   rf \in RandomNames(handling[k].data),
                   io \in WriteOutcomes(handling[k].data) :
                    /\ Handled(processMessage(World, handling[k].data, now, ri, rf, io).w)
                    /\ handling' =
                         [handling EXCEPT
                            ![k].pc = "processed",
                            ![k].out =
                               TryRespond(handling[k].data.id,
                                          processMessage(World, handling[k].data, now,
                                                         ri, rf, io)).out]
        /\ UNCHANGED <<callVars, arrived, inbox, outbox, dismissed, sessionId, root, now>>

\* sendResponse: ws.send(JSON.stringify(response)), and handleMessage returns.
Respond ==
    \E k \in 1..Len(handling) :
        /\ handling[k].pc = "processed"
        /\ outbox' = outbox \o Sent(handling[k].seq, handling[k].out)
        /\ handling' = Returns(handling, k)
        /\ UNCHANGED <<callVars, arrived, inbox, renderers, panels, panelFiles,
                       webviews, dismissed, sessionId, sessionPath, root, dirs, disk,
                       now>>

NextConn ==
    \/ FrameArrives
    \/ MessageEvent
    \/ Dispatch
    \/ Respond

SpecConn == InitConn /\ [][NextConn]_vars

\* The sequence s holds the pieces `part` in a row.
Contains(s, part) ==
    \E i \in 0..(Len(s) - Len(part)) : SubSeq(s, i + 1, i + Len(part)) = part

\* The call of render that is under way returned `result`.
Returned(result) == markup = [called |-> TRUE] @@ result

\* C23: the registry is a last-writer-wins map from type tag to renderer:
\* hasRenderer(t), getRenderer(t) being present and t being in listTypes()
\* agree for every t; after register(r), getRenderer(r.type) is r whatever was
\* registered before, render of an artifact of that type returns r's output,
\* and every other type is as before; after unregister(t), t has no renderer
\* and every other type is as before; and a call of render for a type with a
\* renderer returned the output of the renderer registered last.
C23_LastWriterWins ==
    /\ \A t \in RenderTypes :
         /\ hasRenderer(renderers, t) <=> getRenderer(renderers, t) # ""
         /\ hasRenderer(renderers, t) <=> t \in listTypes(renderers)
    /\ ~markup.called
       => \A r \in PluginRenderers :
            /\ getRenderer(register(renderers, r), r.type) = r.name
            /\ r.type \in listTypes(register(renderers, r))
            /\ \A t \in RenderTypes \ {r.type} :
                 getRenderer(register(renderers, r), t) = getRenderer(renderers, t)
            /\ \A a \in TextArtifacts :
                 render(register(renderers, r), a)
                   = IF a.type = r.type THEN RenderBy(r.name, a)
                     ELSE render(renderers, a)
    /\ \A type \in RenderTypes :
         /\ ~hasRenderer(unregister(renderers, type), type)
         /\ \A t \in RenderTypes \ {type} :
              getRenderer(unregister(renderers, type), t) = getRenderer(renderers, t)
    /\ (markup.called /\ hasRenderer(renderers, rendering.type))
       => Returned(RenderBy(getRenderer(renderers, rendering.type), rendering))

\* A plugin replaced the built-in json renderer, a type without a built-in
\* renderer got one, web was unregistered, and render returned the plugin's
\* markup for a json artifact.
C23_Witness ==
    /\ renderers["json"] = "other"
    /\ renderers["widget"] = "custom"
    /\ renderers["web"] = ""
    /\ markup.called
    /\ rendering.type = "json"
    /\ markup.markup = <<"<p>(plugin)", "other", "</p>">>

\* C24: for every artifact whose type has no registered renderer and for
\* every payload shape, render does not throw and returns the fallback markup:
\* the phrase "Unknown artifact type", the type tag, and a serialization of
\* the payload.
C24_FallbackNeverThrows ==
    (markup.called /\ ~hasRenderer(renderers, rendering.type))
    => /\ ~markup.exc.thrown
       /\ Contains(markup.markup, <<"Unknown artifact type: ">> \o TagText(rendering.type))
       /\ Contains(markup.markup, Stringify(rendering.data))

\* C25: the fallback markup holds no ampersand, angle bracket or quote taken
\* from the type tag or from the payload: each is replaced by its entity.
C25_FallbackEscapes ==
    (markup.called /\ ~hasRenderer(renderers, rendering.type) /\ ~markup.exc.thrown)
    => \A i \in 1..Len(markup.markup) : markup.markup[i] \notin Special

\* C26: the markup of a built-in renderer holds no ampersand, angle bracket or
\* quote taken from a free-text field of the payload or from the title.
C26_BuiltinsEscape ==
    (markup.called /\ getRenderer(renderers, rendering.type) = "builtin"
        /\ ~markup.exc.thrown)
    => \A i \in 1..Len(markup.markup) : markup.markup[i] \notin Special

\* t is s with some of its lines left out.
RECURSIVE IsSubsequence(_, _)
IsSubsequence(t, s) ==
    IF t = <<>> THEN TRUE
    ELSE IF s = <<>> THEN FALSE
    ELSE IF Head(t) = Head(s) THEN IsSubsequence(Tail(t), Tail(s))
    ELSE IsSubsequence(t, Tail(s))

\* The length of a longest common subsequence of a and b, by trying every
\* array of lines that is short enough.
TrueLcsLength(a, b) ==
    CHOOSE n \in 0..Len(a) :
        /\ \E t \in LineSeqs : Len(t) = n /\ IsSubsequence(t, a) /\ IsSubsequence(t, b)
        /\ \A t \in LineSeqs : (IsSubsequence(t, a) /\ IsSubsequence(t, b)) => Len(t) <= n

\* computeDiff has returned.
Diffed == diffResult # NoDiff

\* C27: for all arrays of lines A and B, the array longestCommonSubsequence
\* returned is a subsequence of A and of B whose length L is that of a longest
\* common subsequence, and computeDiff(A, B) has
\* addedCount + removedCount = |A| + |B| - 2 * L.
C27_CountsMatchLcs ==
    Diffed
    => /\ IsSubsequence(lcs, original)
       /\ IsSubsequence(lcs, modified)
       /\ Len(lcs) = TrueLcsLength(original, modified)
       /\ diffResult.addedCount + diffResult.removedCount
            = Len(original) + Len(modified) - 2 * TrueLcsLength(original, modified)

\* Two arrays whose longest common subsequence is not at their start: one
\* line removed, one added.
C27_Witness ==
    /\ original = <<"a", "b", "x">>
    /\ modified = <<"b", "x", "a">>
    /\ lcs = <<"b", "x">>
    /\ diffResult.addedCount = 1
    /\ diffResult.removedCount = 1

\* The lines of the rows of a column whose type is one of `types`, in order.
ColumnLines(rows, types) ==
    LET Kept(row) == row.type \in types
        kept == SelectSeq(rows, Kept)
    IN  [k \in 1..Len(kept) |-> kept[k].line]

\* C28: for all arrays of lines A and B, the same and added rows of the right
\* column of computeDiff(A, B), in order, are B, and the same and removed rows
\* of the left column are A; diff([a,b],[a,x,b]) has the left column same a,
\* empty, same b and the right column same a, added x, same b.
C28_ColumnsReproduceInputs ==
    Diffed
    => /\ ColumnLines(diffResult.right, {"same", "added"}) = modified
       /\ ColumnLines(diffResult.left, {"same", "removed"}) = original
       /\ (original = <<"a", "b">> /\ modified = <<"a", "x", "b">>)
          => /\ diffResult.left = <<SameRow(original, 0), EmptyRow, SameRow(original, 1)>>
             /\ diffResult.right = <<SameRow(modified, 0), AddedRow(modified, 1),
                                     SameRow(modified, 2)>>

\* computeDiff has returned for the arrays [a, b] and [a, x, b], with the
\* added line x in the second row of the right column.
C28_Witness ==
    /\ original = <<"a", "b">>
    /\ modified = <<"a", "x", "b">>
    /\ Len(diffResult.right) = 3
    /\ diffResult.right[2] = [line |-> "x", type |-> "added", num |-> 2]
    /\ diffResult.left[2].type = "empty"

\* C29: for every array of lines A, computeDiff(A, A) has |A| rows, each of
\* them same in both columns, and addedCount = removedCount = 0.
C29_SelfDiffAllSame ==
    (Diffed /\ original = modified)
    => /\ Len(diffResult.left) = Len(original)
       /\ Len(diffResult.right) = Len(original)
       /\ \A k \in 1..Len(diffResult.left) :
            /\ diffResult.left[k] = [line |-> original[k], type |-> "same", num |-> k]
            /\ diffResult.right[k] = diffResult.left[k]
       /\ diffResult.addedCount = 0
       /\ diffResult.removedCount = 0

\* computeDiff has returned for an array with a repeated line and itself.
C29_Witness ==
    /\ original = <<"a", "a", "b">>
    /\ modified = original
    /\ Len(diffResult.left) = 3
    /\ diffResult.left[2].type = "same"

\* C30: for every array of lines B, computeDiff([], B) has only added rows,
\* addedCount = |B| and removedCount = 0; for every A, computeDiff(A, []) has
\* only removed rows, removedCount = |A| and addedCount = 0.
C30_EmptySide ==
    /\ (Diffed /\ original = <<>>)
       => /\ Len(diffResult.right) = Len(modified)
          /\ \A k \in 1..Len(diffResult.right) :
               /\ diffResult.right[k].type = "added"
               /\ diffResult.left[k].type = "empty"
          /\ diffResult.addedCount = Len(modified)
          /\ diffResult.removedCount = 0
    /\ (Diffed /\ modified = <<>>)
       => /\ Len(diffResult.left) = Len(original)
          /\ \A k \in 1..Len(diffResult.left) :
               /\ diffResult.left[k].type = "removed"
               /\ diffResult.right[k].type = "empty"
          /\ diffResult.removedCount = Len(original)
          /\ diffResult.addedCount = 0

\* computeDiff has returned for three lines against the empty array: three
\* removed rows.
C30_Witness ==
    /\ original = <<"a", "x", "a">>
    /\ modified = <<>>
    /\ Len(diffResult.left) = 3
    /\ diffResult.removedCount = 3

\* The fields of a message an error text names.
FieldsNamed(text) ==
    CASE text = "Missing artifact" -> {"artifact"}
      [] text = "Missing panelId or artifact" -> {"panelId", "artifact"}
      [] text = "Missing panelId" -> {"panelId"}
      [] text = "Missing path" -> {"path"}
      [] OTHER -> {}

\* The fields the action of a message requires that the message lacks.
MissingFields(data) ==
    CASE data.action = "render" -> IF data.artifact.present THEN {} ELSE {"artifact"}
      [] data.action = "update" ->
            (IF Falsy(data.panelId) THEN {"panelId"} ELSE {})
              \cup (IF data.artifact.present THEN {} ELSE {"artifact"})
      [] data.action = "close" -> IF Falsy(data.panelId) THEN {"panelId"} ELSE {}
      [] data.action = "open" ->
            IF data.artifact.path \in {Undefined, ""} THEN {"path"} ELSE {}
      [] OTHER -> {}

Actions == {"render", "update", "close", "list", "open", "ping"}

\* Messages without an action, besides those of an action nobody knows.
ActionMessages ==
    Messages \cup {Payload("object", i, Undefined, NoArtifact, NoPanelId) : i \in MsgIds}

\* C31: a request that lacks a field its action requires is answered, once,
\* with success = false and an error that names every field that is missing
\* (artifact for render, panelId or artifact for update, panelId for close,
\* path for open); a request whose action is none of render, update, close,
\* list, open, ping is answered with success = false and
\* "Unknown action: <action>".
C31_RejectionNamesCause ==
    \A data \in ActionMessages : \A d \in Draws :
        LET r == Handle(data, d)
        IN  /\ MissingFields(data) # {}
               => /\ Len(r.out) = 1
                  /\ r.out[1].id = data.id
                  /\ r.out[1].success = FALSE
                  /\ r.out[1].error.text \in
                       {"Missing artifact", "Missing panelId or artifact",
                        "Missing panelId", "Missing path"}
                  /\ MissingFields(data) \subseteq FieldsNamed(r.out[1].error.text)
            /\ data.action \notin Actions
               => r.out = <<Response(data.id, FALSE,
                                     [text |-> "Unknown action: ",
                                      arg |-> ToStr(data.action)],
                                     NoData)>>

\* A panel is open under a caller's id and an update for that very panel
\* arrives without artifact: it is rejected for the missing field.
C31_Witness ==
    \E data \in Messages :
        /\ data.action = "update"
        /\ data.panelId \in DOMAIN panels
        /\ ~data.artifact.present
        /\ Handle(data, [ri |-> 0, rf |-> 0, io |-> "ok"]).out[1].error.text
             = "Missing panelId or artifact"

\* The requests that only ask, and those that are turned down before anything
\* is done.
Harmless(data) ==
    \/ data.action \in {"ping", "list", "open"}
    \/ data.action \notin Actions
    \/ MissingFields(data) # {}

\* C33: ping, list, open and unknown-action requests and requests rejected for
\* a missing field leave the panels, the recorded file paths, the renderer
\* registry and the session store with its directories and files as they
\* were; ping is answered with success = true and no data, list with exactly
\* the ids of the panels that are active.
C33_QueriesChangeNothing ==
    \A data \in ActionMessages : \A d \in Draws :
        LET r == Handle(data, d)
        IN  /\ Harmless(data) => r.w = World
            /\ data.action = "ping"
               => r.out = <<Response(data.id, TRUE, NoError, NoData)>>
            /\ data.action = "list"
               => r.out = <<Response(data.id, TRUE, NoError,
                                     [kind |-> "list", panelId |-> NoPanelId,
                                      filePath |-> NoPath, panels |-> DOMAIN panels])>>

\* Two panels are active, one of them with a file on disk and a recorded
\* path, the other without: list names both.
C33_Witness ==
    /\ Cardinality(DOMAIN panels) = 2
    /\ Cardinality(DOMAIN panelFiles) = 1
    /\ DOMAIN disk # {}
    /\ Handle(ListAfter, [ri |-> 0, rf |-> 0, io |-> "ok"]).out[1].data.panels
         = DOMAIN panels

\* C37: when the renderer throws during show or update, the panel manager and
\* the session store are as before the call: no panel was created or added to
\* list(), an existing panel has its title and content, no file was written
\* and no path recorded.
C37_FailedRenderChangesNothing ==
    \A data \in Messages : \A d \in Draws :
        (Renders(data) /\ PluginRender(renderers, data.artifact).exc.thrown
            /\ (data.action = "update" => ~Falsy(data.panelId)))
        => Handle(data, d).w = World

\* C38: in every reachable state, and after PanelManager.dispose() from it,
\* every panel id with a recorded file path is the id of an active panel.
C38_FilesOfActivePanels ==
    /\ DOMAIN panelFiles \subseteq DOMAIN panels
    /\ DOMAIN dispose(World).panelFiles \subseteq DOMAIN dispose(World).panels

\* A panel with a recorded file was closed while another panel with a failed
\* file write stays active, and a dismissal is under way.
C38_Witness ==
    /\ DOMAIN disk # {}
    /\ panelFiles = <<>>
    /\ DOMAIN panels # {}
    /\ \E h \in Handles : webviews[h].disposed
    /\ dismissed # {}

\* The backtracking the specification asks for: where the lines differ the
\* walk goes up (into `a`) unless the left neighbour is strictly larger, so
\* that a tie goes up.
RECURSIVE BacktrackUpOnTie(_, _, _, _, _, _)
BacktrackUpOnTie(a, b, dp, i, j, result) ==
    IF ~(i > 0 /\ j > 0) THEN result
    ELSE IF a[i] = b[j]
    THEN BacktrackUpOnTie(a, b, dp, i - 1, j - 1, <<a[i]>> \o result)
    ELSE IF dp[i - 1][j] >= dp[i][j - 1]
    THEN BacktrackUpOnTie(a, b, dp, i - 1, j, result)
    ELSE BacktrackUpOnTie(a, b, dp, i, j - 1, result)

\* C34: at a cell of the table whose lines differ and whose up and left
\* neighbours are equal the backtracking moves up, so that the common
\* subsequence longestCommonSubsequence returns is the one an up-on-tie
\* backtracking finds, the same on every run.
C34_TieMovesUp ==
    Diffed
    => lcs = BacktrackUpOnTie(original, modified, LcsTable(original, modified),
                              Len(original), Len(modified), <<>>)

\* The line numbers of the rows of a column that have one, in order.
ColumnNums(rows) ==
    LET Numbered(row) == row.num # NoNum
        kept == SelectSeq(rows, Numbered)
    IN  [k \in 1..Len(kept) |-> kept[k].num]

\* Every numbered row of a column of the diff of `array` holds the line of
\* `array` at its number.
RowsHoldLines(rows, array) ==
    \A k \in 1..Len(rows) :
        rows[k].num # NoNum
        => rows[k].num \in 1..Len(array) /\ rows[k].line = array[rows[k].num]

\* C35: the alignment computeDiff returns is well formed: left and right are
\* equally long; row by row the kinds are same/same, removed/empty or
\* empty/added; a row has no line number exactly when it is empty; on each
\* side the line numbers are 1, 2, 3, ... up to the length of that side's
\* input, and each numbered row holds the input line at its number.
C35_AlignmentWellFormed ==
    Diffed
    => /\ Len(diffResult.left) = Len(diffResult.right)
       /\ \A k \in 1..Len(diffResult.left) :
            /\ <<diffResult.left[k].type, diffResult.right[k].type>>
                 \in {<<"same", "same">>, <<"removed", "empty">>, <<"empty", "added">>}
            /\ diffResult.left[k].num = NoNum <=> diffResult.left[k].type = "empty"
            /\ diffResult.right[k].num = NoNum <=> diffResult.right[k].type = "empty"
       /\ ColumnNums(diffResult.left) = [k \in 1..Len(original) |-> k]
       /\ ColumnNums(diffResult.right) = [k \in 1..Len(modified) |-> k]
       /\ RowsHoldLines(diffResult.left, original)
       /\ RowsHoldLines(diffResult.right, modified)

\* computeDiff has returned an alignment with a same, a removed and an added
\* row.
C35_Witness ==
    /\ original = <<"a", "b", "a">>
    /\ modified = <<"a", "a", "x">>
    /\ Len(diffResult.left) = 4
    /\ \E k \in 1..4 : diffResult.left[k].type = "removed"
    /\ \E k \in 1..4 : diffResult.right[k].type = "added"

\* The states of the locals of computeDiff at the head of its loop, pass after
\* pass, for at most `fuel` passes.
RECURSIVE LoopTrace(_, _, _, _, _)
LoopTrace(orig, modi, common, st, fuel) ==
    IF (st.oi < Len(orig) \/ st.mi < Len(modi)) /\ fuel > 0
    THEN <<st>> \o LoopTrace(orig, modi, common, DiffStep(orig, modi, common, st),
                             fuel - 1)
    ELSE <<st>>

\* The passes of the loop of the call that returned.
Passes == LoopTrace(original, modified, lcs, DiffStart, Len(original) + Len(modified) + 1)

\* C39: computeDiff terminates: every pass of its loop advances the cursor
\* into original or the cursor into modified, no cursor goes past the end of
\* its array and no row holds a line read past the end, each pass adds one row,
\* and the loop ends after exactly |A| + |B| - |LCS| passes.
C39_LoopTerminates ==
    Diffed
    => /\ Len(Passes) - 1 = Len(original) + Len(modified) - Len(lcs)
       /\ Passes[Len(Passes)].oi = Len(original)
       /\ Passes[Len(Passes)].mi = Len(modified)
       /\ DiffResultOf(Passes[Len(Passes)]) = diffResult
       /\ \A k \in 1..(Len(Passes) - 1) :
            /\ Passes[k + 1].oi + Passes[k + 1].mi > Passes[k].oi + Passes[k].mi
            /\ Passes[k + 1].oi \in {Passes[k].oi, Passes[k].oi + 1}
            /\ Passes[k + 1].mi \in {Passes[k].mi, Passes[k].mi + 1}
            /\ Passes[k + 1].oi <= Len(original)
            /\ Passes[k + 1].mi <= Len(modified)
            /\ Len(Passes[k + 1].left) = k
            /\ Len(Passes[k + 1].right) = k
       /\ \A k \in 1..Len(diffResult.left) :
            /\ diffResult.left[k].line # "undefined"
            /\ diffResult.right[k].line # "undefined"

\* computeDiff has returned after four passes for two arrays of three lines
\* that share two.
C39_Witness ==
    /\ original = <<"a", "b", "x">>
    /\ modified = <<"x", "a", "b">>
    /\ lcs = <<"a", "b">>
    /\ Len(diffResult.left) = 4

\* C40: in the alignment computeDiff returns, within every run of rows that
\* are not same, the removed rows come before the added rows: no added row is
\* followed, within its run, by a removed row.
C40_RemovedBeforeAdded ==
    Diffed
    => \A j, k \in 1..Len(diffResult.left) :
          (j < k /\ diffResult.right[j].type = "added"
                 /\ diffResult.left[k].type = "removed")
          => \E i \in (j + 1)..(k - 1) : diffResult.left[i].type = "same"

\* computeDiff has returned an alignment with a run of a removed and an added
\* row after a same row.
C40_Witness ==
    /\ original = <<"a", "b">>
    /\ modified = <<"a", "x">>
    /\ Len(diffResult.left) = 3
    /\ diffResult.left[2].type = "removed"
    /\ diffResult.right[3].type = "added"

\* Every row of the alignment is an added one, or every row a removed one.
AllAdded(result) ==
    \A k \in 1..Len(result.right) :
        result.right[k].type = "added" /\ result.left[k].type = "empty"

AllRemoved(result) ==
    \A k \in 1..Len(result.left) :
        result.left[k].type = "removed" /\ result.right[k].type = "empty"

\* C36: rendering a diff artifact whose original body is empty gives an
\* alignment whose rows are all added, with removedCount = 0 and addedCount
\* the number of lines of the modified body; an empty modified body gives only
\* removed rows, addedCount = 0 and removedCount the number of lines of the
\* original body.
C36_EmptyBody ==
    (markup.called /\ ~markup.exc.thrown)
    => /\ rendering.data.original = <<>>
          => /\ AllAdded(diffResult)
             /\ diffResult.removedCount = 0
             /\ diffResult.addedCount = Len(split(rendering.data.modified))
       /\ rendering.data.modified = <<>>
          => /\ AllRemoved(diffResult)
             /\ diffResult.addedCount = 0
             /\ diffResult.removedCount = Len(split(rendering.data.original))

\* C32: on a connection each message is handled to completion before the
\* next one starts: at most one call of handleMessage is under way, it is for
\* a frame that arrived before every frame still waiting and after every
\* frame already answered, and the responses are sent in the order in which
\* their frames arrived.
C32_RunToCompletion ==
    /\ Len(handling) <= 1
    /\ \A i, j \in 1..Len(outbox) : i < j => outbox[i].seq < outbox[j].seq
    /\ \A k \in 1..Len(handling) :
         /\ \A i \in 1..Len(outbox) : outbox[i].seq < handling[k].seq
         /\ \A i \in 1..Len(inbox) : handling[k].seq < inbox[i].seq
    /\ \A i \in 1..Len(outbox) : \A j \in 1..Len(inbox) : outbox[i].seq < inbox[j].seq

\* The first frame has been answered, the second has been dispatched and its
\* response is not sent yet, and the third is waiting.
C32_Witness ==
    /\ Len(outbox) = 1
    /\ outbox[1].response.success
    /\ Len(handling) = 1
    /\ handling[1].pc = "processed"
    /\ handling[1].out # <<>>
    /\ inbox # <<>>
    /\ DOMAIN panels # {}
====
